---- MODULE Spec2Model ----
(***************************************************************************)
(* Model of the IndexTTS2 multi-character / long-text generators:          *)
(*   multi_character_emotion_generator.py  (CharacterDialogueParser,       *)
(*       TextSegmenter, MultiCharacterEmotionGenerator)                    *)
(*   long_text_emotion_generator.py        (EmotionTagParser,              *)
(*       TextSegmenter, LongTextEmotionGenerator)                          *)
(*   ssh_n8n_processor.py                  (SSHN8NProcessor)               *)
(*                                                                         *)
(* A Python str is a sequence of one-character strings.  An intensity      *)
(* (alpha) is an integer number of thousandths: 0.8 is 800.                *)
(***************************************************************************)
EXTENDS Integers, Sequences, FiniteSets, TLC

\* ------------------------------------------------------------------------
\* Bounds of the model
\* ------------------------------------------------------------------------
\* Largest number of pieces an input script of the Variant B parser is
\* assembled from.
MaxPieces == 4

\* Largest number of sentence pieces the text of a segment handed to the
\* segmenter is assembled from.
MaxSentences == 3

\* ------------------------------------------------------------------------
\* Python str operations
\* ------------------------------------------------------------------------
Letters ==
    {"a","b","c","d","e","f","g","h","i","j","k","l","m",
     "n","o","p","q","r","s","t","u","v","w","x","y","z",
     "A","B","C","D","E","F","G","H","I","J","K","L","M",
     "N","O","P","Q","R","S","T","U","V","W","X","Y","Z"}

Digits == {"0","1","2","3","4","5","6","7","8","9"}

\* the characters the regular expression class \w accepts
WordChars == Letters \cup Digits \cup {"_"}

\* the characters str.strip() removes
Whitespace == {" ", "\t", "\r", "\n"}

IsWord(c) == c \in WordChars

IsSpace(c) == c \in Whitespace

IsDigit(c) == c \in Digits

NotClose(c) == c # "]"

\* s[a:b] with Python's 0-based, end-exclusive offsets (0 <= a, b <= len(s))
Slice(s, a, b) == SubSeq(s, a + 1, b)

\* the largest j >= i-1 such that s[i..j] (1-based) all satisfy P
RunEnd(s, i, P(_)) ==
    IF i > Len(s) THEN i - 1
    ELSE CHOOSE j \in (i - 1)..Len(s) :
             /\ \A k \in i..j : P(s[k])
             /\ (j = Len(s) \/ ~P(s[j + 1]))

\* the smallest i <= j+1 such that s[i..j] (1-based) all satisfy P
RunStart(s, j, P(_)) ==
    IF j < 1 THEN j + 1
    ELSE CHOOSE i \in 1..(j + 1) :
             /\ \A k \in i..j : P(s[k])
             /\ (i = 1 \/ ~P(s[i - 1]))

\* str.lstrip() / str.rstrip() / str.strip()
LStrip(s) == SubSeq(s, RunEnd(s, 1, IsSpace) + 1, Len(s))

RStrip(s) == SubSeq(s, 1, RunStart(s, Len(s), IsSpace) - 1)

Strip(s) == RStrip(LStrip(s))

\* str.split(sep) for a one-character separator: always at least one field
RECURSIVE Split(_, _)
Split(s, sep) ==
    IF \A k \in 1..Len(s) : s[k] # sep
    THEN << s >>
    ELSE LET j == CHOOSE k \in 1..Len(s) :
                      s[k] = sep /\ \A m \in 1..(k - 1) : s[m] # sep
         IN  << SubSeq(s, 1, j - 1) >> \o Split(SubSeq(s, j + 1, Len(s)), sep)

\* value of a decimal digit
DigitVal(c) ==
    CASE c = "0" -> 0 [] c = "1" -> 1 [] c = "2" -> 2 [] c = "3" -> 3
      [] c = "4" -> 4 [] c = "5" -> 5 [] c = "6" -> 6 [] c = "7" -> 7
      [] c = "8" -> 8 [] c = "9" -> 9

\* value of a run of decimal digits
RECURSIVE DigitsVal(_)
DigitsVal(ds) ==
    IF ds = << >> THEN 0
    ELSE 10 * DigitsVal(SubSeq(ds, 1, Len(ds) - 1)) + DigitVal(ds[Len(ds)])

FracDigit(fs, k) == IF k <= Len(fs) THEN DigitVal(fs[k]) ELSE 0

\* the first three fraction digits as thousandths
FracMilli(fs) == 100 * FracDigit(fs, 1) + 10 * FracDigit(fs, 2) + FracDigit(fs, 3)

\* float(v) for the decimal literals  [ws] [+-] digits [. digits] [ws]  and
\* [ws] [+-] . digits [ws]; anything else raises ValueError.  The result is
\* in thousandths (fraction digits after the third are cut); ok is FALSE for
\* ValueError.  Exponents, underscores, inf and nan do not occur in the
\* inputs of this model.
\*   neg: a minus sign was read; ip, fp: integer and fraction digits;
\*   whole: the literal extends to the end of the stripped string
FloatResult(neg, ip, fp, whole) ==
    IF whole /\ (ip # << >> \/ fp # << >>)
    THEN [ok  |-> TRUE,
          val |-> IF neg THEN 0 - (1000 * DigitsVal(ip) + FracMilli(fp))
                  ELSE 1000 * DigitsVal(ip) + FracMilli(fp)]
    ELSE [ok |-> FALSE, val |-> 0]

\* u: the string after the sign; ie: end of its leading digit run
FloatFraction(u, neg, ie) ==
    IF ie < Len(u) /\ u[ie + 1] = "."
    THEN FloatResult(neg, SubSeq(u, 1, ie),
                     SubSeq(u, ie + 2, RunEnd(u, ie + 2, IsDigit)),
                     RunEnd(u, ie + 2, IsDigit) = Len(u))
    ELSE FloatResult(neg, SubSeq(u, 1, ie), << >>, ie = Len(u))

FloatSigned(t) ==
    IF t # << >> /\ t[1] \in {"+", "-"}
    THEN FloatFraction(Tail(t), t[1] = "-", RunEnd(Tail(t), 1, IsDigit))
    ELSE FloatFraction(t, FALSE, RunEnd(t, 1, IsDigit))

ParseFloat(v) == FloatSigned(Strip(v))

Min(a, b) == IF a < b THEN a ELSE b

Max(a, b) == IF a > b THEN a ELSE b

\* Clamp01 without the upper limit
Clamp01_NoUpperLimit(x) == Max(0, x)

\* max(0.0, min(1.0, x)) in thousandths
Clamp01(x) == Max(0, Min(1000, x))

\* ------------------------------------------------------------------------
\* CharacterDialogueParser (Variant B: {[character]:[emotion:value]} tags)
\* ------------------------------------------------------------------------
narrator == <<"n","a","r","r","a","t","o","r">>

calm == <<"c","a","l","m">>

\* emo_text=None of a DialogueSegment.  A descriptive emotion text is never
\* empty (it contains ": "), and the code only tests its truthiness.
None == << >>

\* s has the character c at the 1-based index k
At(s, k, c) == k >= 1 /\ k <= Len(s) /\ s[k] = c

NoMatch(i) ==
    [ok |-> FALSE, start |-> i - 1, end |-> i - 1,
     g1 |-> << >>, g2 |-> << >>, g3 |-> << >>]

\* One attempt of the pattern \{\[\w+\]:\[\w+:[^\]]+\]\} at the 1-based
\* index i of s.  Every repetition is followed by a character outside its
\* class, so the greedy match is the only candidate: c1, e1 and v1 are the
\* ends of the maximal runs of \w, \w and [^\]].  ok is FALSE when the
\* pattern does not match at i; otherwise g1, g2, g3 are the three groups of
\* _extract_character_content's pattern, start is the match's Python start
\* offset and end its Python end offset (the index of the closing brace).
MatchTagValue(s, i, c1, e1, v1) ==
    IF /\ At(s, i, "{") /\ At(s, i + 1, "[")
       /\ c1 >= i + 2
       /\ At(s, c1 + 1, "]") /\ At(s, c1 + 2, ":") /\ At(s, c1 + 3, "[")
       /\ e1 >= c1 + 4
       /\ At(s, e1 + 1, ":")
       /\ v1 >= e1 + 2
       /\ At(s, v1 + 1, "]") /\ At(s, v1 + 2, "}")
    THEN [ok |-> TRUE, start |-> i - 1, end |-> v1 + 2,
          g1 |-> SubSeq(s, i + 2, c1),
          g2 |-> SubSeq(s, c1 + 4, e1),
          g3 |-> SubSeq(s, e1 + 2, v1)]
    ELSE NoMatch(i)

MatchTagEmotion(s, i, c1, e1) ==
    MatchTagValue(s, i, c1, e1, RunEnd(s, e1 + 2, NotClose))

MatchTagCharacter(s, i, c1) ==
    MatchTagEmotion(s, i, c1, RunEnd(s, c1 + 4, IsWord))

MatchTagAt(s, i) == MatchTagCharacter(s, i, RunEnd(s, i + 2, IsWord))

\* list(re.finditer(char_pattern, line)): the leftmost non-overlapping
\* matches, scanning from the 1-based index i
RECURSIVE FindTagsFrom(_, _)
FindTagsFrom(line, i) ==
    IF i > Len(line) THEN << >>
    ELSE IF MatchTagAt(line, i).ok
    THEN << MatchTagAt(line, i) >> \o FindTagsFrom(line, MatchTagAt(line, i).end + 1)
    ELSE FindTagsFrom(line, i + 1)

FindTags(line) == FindTagsFrom(line, 1)

\* _extract_character_content without the clamp and with every value taken
\* as a number (a descriptive value read as 0.0)
ExtractValue_NoDescriptive(line, m, f) ==
    [character |-> m.g1, emotion |-> m.g2, isstr |-> FALSE,
     num |-> f.val, str |-> << >>,
     content |-> Strip(SubSeq(line, m.end + 1, Len(line)))]

\* lines 228-240 of _extract_character_content: m is the match of the
\* anchored pattern, f the outcome of float(value).  value is a float (isstr
\* FALSE, num in thousandths, clamped to [0,1]) or the descriptive text
\* (isstr TRUE, str).
ExtractValue(line, m, f) ==
    IF f.ok
    THEN [character |-> m.g1, emotion |-> m.g2, isstr |-> FALSE,
          num |-> Clamp01(f.val), str |-> << >>,
          content |-> Strip(SubSeq(line, m.end + 1, Len(line)))]
    ELSE [character |-> m.g1, emotion |-> m.g2, isstr |-> TRUE,
          num |-> 0, str |-> m.g3,
          content |-> Strip(SubSeq(line, m.end + 1, Len(line)))]

ExtractMatch(line, m) ==
    IF m.ok
    THEN ExtractValue(line, m, ParseFloat(m.g3))
    ELSE [character |-> narrator, emotion |-> calm, isstr |-> FALSE,
          num |-> 0, str |-> << >>, content |-> line]

\* _extract_character_content(line): the tag pattern anchored at the start
\* of line followed by (.*)
ExtractCharacterContent(line) == ExtractMatch(line, MatchTagAt(line, 1))

\* DialogueSegment(...)
DialogueSegment(text, character, emotion, alpha, is_dialogue, position, emo_text) ==
    [text |-> text, character |-> character, emotion |-> emotion,
     alpha |-> alpha, is_dialogue |-> is_dialogue, position |-> position,
     emo_text |-> emo_text]

\* lines 159-165: the text after matches[i] up to the next tag or line end
FollowingText(line, matches, i) ==
    IF i + 1 <= Len(matches)
    THEN Strip(Slice(line, matches[i].end, matches[i + 1].start))
    ELSE Strip(Slice(line, matches[i].end, Len(line)))

\* EmitTagSegment with the registry test dropped from the attribution: the
\* tag's own id and is_dialogue True also for an id that is not registered
EmitTagSegment_KeepsUnregistered(x, following_text, position, characters) ==
    IF x.isstr
    THEN DialogueSegment(following_text, x.character, x.emotion,
                         800, TRUE, position, x.emotion \o <<":", " ">> \o x.str)
    ELSE DialogueSegment(following_text, x.character, x.emotion,
                         x.num, TRUE, position, None)

\* lines 167-212: the segment appended for a tag, x being what
\* _extract_character_content returned for it
EmitTagSegment(x, following_text, position, characters) ==
    IF x.character \in characters /\ following_text # << >>
    THEN IF x.isstr
         THEN DialogueSegment(following_text, x.character, x.emotion,
                              800, TRUE, position, x.emotion \o <<":", " ">> \o x.str)
         ELSE DialogueSegment(following_text, x.character, x.emotion,
                              x.num, TRUE, position, None)
    ELSE IF x.isstr
         THEN DialogueSegment(following_text, narrator, x.emotion,
                              800, FALSE, position, x.emotion \o <<":", " ">> \o x.str)
         ELSE DialogueSegment(following_text, narrator, x.emotion,
                              x.num, FALSE, position, None)

\* The segment one tag appends (lines 154-212): matches[i] of line, with the
\* counter at position, against the registry's character ids.
TagSegment(line, matches, i, position, characters) ==
    EmitTagSegment(
        ExtractCharacterContent(Slice(line, matches[i].start, matches[i].end)),
        FollowingText(line, matches, i), position, characters)

\* the segments of matches[i..] of line; every tag appends one segment and
\* advances the counter by one
RECURSIVE TagSegments(_, _, _, _, _)
TagSegments(line, matches, i, position, characters) ==
    IF i > Len(matches) THEN << >>
    ELSE << TagSegment(line, matches, i, position, characters) >>
         \o TagSegments(line, matches, i + 1, position + 1, characters)

\* NarrationSegment with the dialogue default intensity 0.8 instead of 0.0
NarrationSegment_DialogueAlpha(text, position) ==
    DialogueSegment(text, narrator, calm, 800, FALSE, position, None)

\* lines 127-134 and 143-150: the segment of untagged text
NarrationSegment(text, position) ==
    DialogueSegment(text, narrator, calm, 0, FALSE, position, None)

\* lines 138-151: the segment for the text in front of the first tag
PreSegments(pre_text, position) ==
    IF pre_text # << >> THEN << NarrationSegment(pre_text, position) >> ELSE << >>

\* lines 126-212 for a tagged line: pre holds the segment of the text in
\* front of the first tag, if any
TaggedLine(line, matches, pre, position, characters) ==
    pre \o TagSegments(line, matches, 1, position + Len(pre), characters)

\* ParseMatches skipping a line in which no tag matches the grammar
ParseMatches_DropsUntagged(line, matches, position, characters) ==
    IF matches = << >>
    THEN << >>
    ELSE TaggedLine(line, matches,
                    PreSegments(Strip(Slice(line, 0, matches[1].start)), position),
                    position, characters)

\* lines 123-212: line is the stripped, non-empty line, matches its tags
ParseMatches(line, matches, position, characters) ==
    IF matches = << >>
    THEN << NarrationSegment(line, position) >>
    ELSE TaggedLine(line, matches,
                    PreSegments(Strip(Slice(line, 0, matches[1].start)), position),
                    position, characters)

ParseStripped(line, position, characters) ==
    IF line = << >> THEN << >>
    ELSE ParseMatches(line, FindTags(line), position, characters)

\* ParseLine with the counter set back to 0 at the start of every line
ParseLine_ResetsCounter(raw, position, characters) ==
    ParseStripped(Strip(raw), 0, characters)

\* One iteration of the loop over lines in parse_text_with_characters
\* (lines 114-212): the segments the raw line appends when the counter is at
\* position.
ParseLine(raw, position, characters) ==
    ParseStripped(Strip(raw), position, characters)

\* parse_text_with_characters(text): the loop over text.split('\n') from
\* line number k on, the counter at position
RECURSIVE ParseLines(_, _, _, _)
ParseLines(lines, k, position, characters) ==
    IF k > Len(lines) THEN << >>
    ELSE ParseLine(lines[k], position, characters)
         \o ParseLines(lines, k + 1,
                       position + Len(ParseLine(lines[k], position, characters)),
                       characters)

parse_text_with_characters(text, characters) ==
    ParseLines(Split(text, "\n"), 1, 0, characters)

\* ------------------------------------------------------------------------
\* TextSegmenter of multi_character_emotion_generator.py
\* ------------------------------------------------------------------------
\* the class [。！？.!?]; a character outside ASCII is written as its code
\* point: "U3002" is the one character U+3002
Terminators == {"U3002", "UFF01", "UFF1F", ".", "!", "?"}

IsTerminator(c) == c \in Terminators

NotTerminator(c) == c \notin Terminators

\* re.split(r'([。！？.!?])', text): the texts between the terminators and, at
\* the even places, the terminators themselves; always an odd number of items
RECURSIVE SplitSentences(_)
SplitSentences(text) ==
    IF RunEnd(text, 1, NotTerminator) = Len(text)
    THEN << text >>
    ELSE << SubSeq(text, 1, RunEnd(text, 1, NotTerminator)),
            << text[RunEnd(text, 1, NotTerminator) + 1] >> >>
         \o SplitSentences(SubSeq(text, RunEnd(text, 1, NotTerminator) + 2, Len(text)))

\* Sentence without the terminator that re.split put at the next place
Sentence_WithoutTerminator(sentences, i) == sentences[i]

\* lines 386-389: sentences[i] + sentences[i + 1], i being 1-based here
Sentence(sentences, i) ==
    IF i + 1 <= Len(sentences) THEN sentences[i] \o sentences[i + 1]
    ELSE sentences[i]

\* lines 392-399 and 410-417: a sub-segment takes text and the parent's
\* character, emotion, alpha, is_dialogue and position; emo_text is not
\* passed and keeps its default None
SubSegment(segment, text) ==
    DialogueSegment(text, segment.character, segment.emotion, segment.alpha,
                    segment.is_dialogue, segment.position, None)

\* Overlap taking the head of the closed buffer instead of its tail
Overlap_FromStart(current_text, overlap_chars) ==
    IF overlap_chars > 0
    THEN Slice(current_text, 0, Min(overlap_chars, Len(current_text)))
    ELSE << >>

\* lines 401-405: what the closed buffer leaves in the next one
Overlap(current_text, overlap_chars) ==
    IF overlap_chars > 0
    THEN Slice(current_text, Max(0, Len(current_text) - overlap_chars), Len(current_text))
    ELSE << >>

\* lines 385-419: the loop over the sentences from the 1-based index i on,
\* current_text being the buffer and out the sub-segments closed so far
RECURSIVE SplitLoop(_, _, _, _, _, _, _)
SplitLoop(segment, sentences, i, current_text, out, max_chars, overlap_chars) ==
    IF i > Len(sentences)
    THEN IF current_text # << >>
         THEN Append(out, SubSegment(segment, current_text))
         ELSE out
    ELSE IF Len(current_text \o Sentence(sentences, i)) > max_chars /\ current_text # << >>
    THEN SplitLoop(segment, sentences, i + 2,
                   Overlap(current_text, overlap_chars) \o Sentence(sentences, i),
                   Append(out, SubSegment(segment, current_text)),
                   max_chars, overlap_chars)
    ELSE SplitLoop(segment, sentences, i + 2,
                   current_text \o Sentence(sentences, i), out,
                   max_chars, overlap_chars)

\* TextSegmenter.__init__ defaults
DefaultMaxChars == 200

DefaultOverlapChars == 30

\* _split_long_segment(segment)
split_long_segment(segment, max_chars, overlap_chars) ==
    SplitLoop(segment, SplitSentences(segment.text), 1, << >>, << >>,
              max_chars, overlap_chars)

\* SegmentOne without the test of line 367: every segment is split
SegmentOne_AlwaysSplits(segment, max_chars, overlap_chars) ==
    split_long_segment(segment, max_chars, overlap_chars)

\* lines 367-372: what one segment contributes to the segmented list
SegmentOne(segment, max_chars, overlap_chars) ==
    IF Len(segment.text) <= max_chars THEN << segment >>
    ELSE split_long_segment(segment, max_chars, overlap_chars)

\* segment_dialogue(segments) from the 1-based index k on
RECURSIVE SegmentFrom(_, _, _, _)
SegmentFrom(segs, k, max_chars, overlap_chars) ==
    IF k > Len(segs) THEN << >>
    ELSE SegmentOne(segs[k], max_chars, overlap_chars)
         \o SegmentFrom(segs, k + 1, max_chars, overlap_chars)

segment_dialogue(segs, max_chars, overlap_chars) ==
    SegmentFrom(segs, 1, max_chars, overlap_chars)

\* ------------------------------------------------------------------------
\* Emotion names
\* ------------------------------------------------------------------------
happy == <<"h","a","p","p","y">>

sad == <<"s","a","d">>

angry == <<"a","n","g","r","y">>

afraid == <<"a","f","r","a","i","d">>

disgusted == <<"d","i","s","g","u","s","t","e","d">>

melancholic == <<"m","e","l","a","n","c","h","o","l","i","c">>

surprised == <<"s","u","r","p","r","i","s","e","d">>

\* the emotions IndexTTS2 has a vector for
SupportedEmotions ==
    {happy, angry, sad, afraid, disgusted, melancholic, surprised, calm}

UpperCase == <<"A","B","C","D","E","F","G","H","I","J","K","L","M",
               "N","O","P","Q","R","S","T","U","V","W","X","Y","Z">>

LowerCase == <<"a","b","c","d","e","f","g","h","i","j","k","l","m",
               "n","o","p","q","r","s","t","u","v","w","x","y","z">>

LowerChar(c) ==
    IF \E k \in 1..26 : UpperCase[k] = c
    THEN LowerCase[CHOOSE k \in 1..26 : UpperCase[k] = c]
    ELSE c

\* str.lower()
Lower(s) == [k \in 1..Len(s) |-> LowerChar(s[k])]

\* dict.get(key, default) on a table of <<key, value>> pairs
DictGet(table, key, default) ==
    IF \E p \in table : p[1] = key
    THEN (CHOOSE p \in table : p[1] = key)[2]
    ELSE default

\* EmotionTagParser.EMOTION_MAPPING of long_text_emotion_generator.py; a
\* character outside ASCII is written as its code point
EMOTION_MAPPING ==
    { << <<"h","a","p","p","y">>, happy >>,
      << <<"h","a","p","p","i","n","e","s","s">>, happy >>,
      << <<"j","o","y">>, happy >>,
      << <<"e","x","c","i","t","e","d">>, happy >>,
      << <<"s","a","d">>, sad >>,
      << <<"s","a","d","n","e","s","s">>, sad >>,
      << <<"m","e","l","a","n","c","h","o","l","y">>, melancholic >>,
      << <<"m","e","l","a","n","c","h","o","l","i","c">>, melancholic >>,
      << <<"d","e","p","r","e","s","s","e","d">>, melancholic >>,
      << <<"a","n","g","r","y">>, angry >>,
      << <<"a","n","g","e","r">>, angry >>,
      << <<"r","a","g","e">>, angry >>,
      << <<"f","u","r","y">>, angry >>,
      << <<"a","f","r","a","i","d">>, afraid >>,
      << <<"f","e","a","r">>, afraid >>,
      << <<"s","c","a","r","e","d">>, afraid >>,
      << <<"t","e","r","r","i","f","i","e","d">>, afraid >>,
      << <<"d","i","s","g","u","s","t","e","d">>, disgusted >>,
      << <<"d","i","s","g","u","s","t">>, disgusted >>,
      << <<"r","e","v","o","l","t","e","d">>, disgusted >>,
      << <<"s","u","r","p","r","i","s","e","d">>, surprised >>,
      << <<"s","u","r","p","r","i","s","e">>, surprised >>,
      << <<"a","m","a","z","e","d">>, surprised >>,
      << <<"s","h","o","c","k","e","d">>, surprised >>,
      << <<"c","a","l","m">>, calm >>,
      << <<"n","e","u","t","r","a","l">>, calm >>,
      << <<"n","o","r","m","a","l">>, calm >>,
      << <<"p","e","a","c","e","f","u","l">>, calm >>,
      << <<"U9AD8","U5174">>, happy >>,
      << <<"U5FEB","U4E50">>, happy >>,
      << <<"U6124","U6012">>, angry >>,
      << <<"U751F","U6C14">>, angry >>,
      << <<"U60B2","U4F24">>, sad >>,
      << <<"U96BE","U8FC7">>, sad >>,
      << <<"U6050","U60E7">>, afraid >>,
      << <<"U5BB3","U6015">>, afraid >>,
      << <<"U53CD","U611F">>, disgusted >>,
      << <<"U538C","U6076">>, disgusted >>,
      << <<"U4F4E","U843D">>, melancholic >>,
      << <<"U5FE7","U90C1">>, melancholic >>,
      << <<"U60CA","U8BB6">>, surprised >>,
      << <<"U5403","U60CA">>, surprised >>,
      << <<"U81EA","U7136">>, calm >>,
      << <<"U5E73","U9759">>, calm >> }

\* the entries _map_emotion of multi_character_emotion_generator.py has on
\* top of that table
AdditionalEmotions ==
    { << <<"d","e","t","e","r","m","i","n","e","d">>, angry >>,
      << <<"r","e","s","o","l","v","e","d">>, angry >>,
      << <<"c","o","u","r","a","g","e","o","u","s">>, angry >>,
      << <<"t","h","o","u","g","h","t","f","u","l">>, calm >>,
      << <<"w","i","s","e">>, calm >>,
      << <<"s","e","r","e","n","e">>, calm >>,
      << <<"a","l","a","r","m","e","d">>, afraid >>,
      << <<"o","u","t","r","a","g","e","d">>, angry >>,
      << <<"f","u","r","i","o","u","s">>, angry >>,
      << <<"r","e","v","e","r","e","n","t">>, calm >>,
      << <<"r","e","s","p","e","c","t","f","u","l">>, calm >>,
      << <<"c","o","n","t","e","n","t">>, happy >>,
      << <<"n","o","s","t","a","l","g","i","c">>, melancholic >>,
      << <<"l","o","n","g","i","n","g">>, sad >>,
      << <<"y","e","a","r","n","i","n","g">>, sad >> }

\* CharacterDialogueParser._map_emotion (lines 328-352)
map_emotion(emotion_name) ==
    DictGet(EMOTION_MAPPING \cup AdditionalEmotions, Lower(emotion_name), calm)

\* ------------------------------------------------------------------------
\* EmotionTagParser.parse_emotion_tags (Variant A: [emotion] and
\* [emotion:alpha] tags) of long_text_emotion_generator.py
\* ------------------------------------------------------------------------
\* tag_pattern \[([^\]]+)\] matches at the 1-based index i of s: a "[", at
\* least one character that is not "]", and a "]" behind them
BracketAt(s, i) ==
    /\ s[i] = "["
    /\ RunEnd(s, i + 1, NotClose) >= i + 1
    /\ RunEnd(s, i + 1, NotClose) < Len(s)

\* the match object: start and end as Python offsets, g1 as group(1)
BracketMatch(s, i, e) ==
    [start |-> i - 1, end |-> e + 1, g1 |-> SubSeq(s, i + 1, e)]

\* re.finditer(tag_pattern, text) from the 1-based index i on
RECURSIVE FindBracketsFrom(_, _)
FindBracketsFrom(s, i) ==
    IF i > Len(s) THEN << >>
    ELSE IF BracketAt(s, i)
    THEN << BracketMatch(s, i, RunEnd(s, i + 1, NotClose)) >>
         \o FindBracketsFrom(s, RunEnd(s, i + 1, NotClose) + 2)
    ELSE FindBracketsFrom(s, i + 1)

FindBrackets(s) == FindBracketsFrom(s, 1)

\* line 144: match.group(1).lower().strip()
TagContent(m) == Strip(Lower(m.g1))

HasColon(c) == \E k \in 1..Len(c) : c[k] = ":"

FirstColon(c) == CHOOSE k \in 1..Len(c) : c[k] = ":" /\ \A j \in 1..(k - 1) : c[j] # ":"

\* lines 147-159: the emotion name of the tag content c
TagEmotionName(c) ==
    IF HasColon(c) THEN Strip(SubSeq(c, 1, FirstColon(c) - 1)) ELSE c

\* lines 150-155: float(...) clamped to [0, 1]; 1.0 on ValueError
AlphaOfFloat(f) == IF f.ok THEN Clamp01(f.val) ELSE 1000

\* lines 147-159: the alpha of the tag content c, 1.0 without a ':'
TagAlpha(c) ==
    IF HasColon(c)
    THEN AlphaOfFloat(ParseFloat(SubSeq(c, FirstColon(c) + 1, Len(c))))
    ELSE 1000

\* line 162: EMOTION_MAPPING.get(emotion_name, self.default_emotion)
TagEmotion(c, default_emotion) ==
    DictGet(EMOTION_MAPPING, TagEmotionName(c), default_emotion)

\* the dictionaries parse_emotion_tags returns
EmotionSegment(text, emotion, alpha, position) ==
    [text |-> text, emotion |-> emotion, alpha |-> alpha, position |-> position]

\* SpanOf without the test of lines 167 and 183: the empty span is emitted too
SpanOf_KeepsEmpty(span, emotion, alpha, position) ==
    << EmotionSegment(span, emotion, alpha, position) >>

\* lines 165-173 and 181-189: the stripped span, if it is not empty
SpanOf(span, emotion, alpha, position) ==
    IF span # << >> THEN << EmotionSegment(span, emotion, alpha, position) >>
    ELSE << >>

\* the segment of text[a:b], if a < b
SpanSegment(text, a, b, emotion, alpha) ==
    IF a < b THEN SpanOf(Strip(Slice(text, a, b)), emotion, alpha, a) ELSE << >>

\* lines 142-189: the loop over the matches from the 1-based index i on and
\* the remaining text behind the last one
RECURSIVE ParseTagsLoop(_, _, _, _, _, _, _)
ParseTagsLoop(text, matches, i, current_pos, current_emotion, current_alpha, default_emotion) ==
    IF i > Len(matches)
    THEN SpanSegment(text, current_pos, Len(text), current_emotion, current_alpha)
    ELSE SpanSegment(text, current_pos, matches[i].start, current_emotion, current_alpha)
         \o ParseTagsLoop(text, matches, i + 1, matches[i].end,
                          TagEmotion(TagContent(matches[i]), default_emotion),
                          TagAlpha(TagContent(matches[i])), default_emotion)

\* lines 130-139: without a match the whole stripped text is one segment
ParseBrackets(text, matches, default_emotion) ==
    IF matches = << >>
    THEN << EmotionSegment(Strip(text), default_emotion, 1000, 0) >>
    ELSE ParseTagsLoop(text, matches, 1, 0, default_emotion, 1000, default_emotion)

parse_emotion_tags(text, default_emotion) ==
    ParseBrackets(text, FindBrackets(text), default_emotion)

\* ------------------------------------------------------------------------
\* TextSegmenter.segment_text of long_text_emotion_generator.py
\* ------------------------------------------------------------------------
\* (?<=[.!?...])\s+ matches at the 1-based index k of s
SentenceBreakAt(s, k) == k > 1 /\ IsTerminator(s[k - 1]) /\ IsSpace(s[k])

HasBreak(s) == \E k \in 2..Len(s) : SentenceBreakAt(s, k)

FirstBreak(s) ==
    CHOOSE k \in 2..Len(s) :
        SentenceBreakAt(s, k) /\ \A j \in 2..(k - 1) : ~SentenceBreakAt(s, j)

\* line 241: re.split(r'(?<=[.!?...])\s+', text)
RECURSIVE SplitAfterSentence(_)
SplitAfterSentence(s) ==
    IF ~HasBreak(s) THEN << s >>
    ELSE << SubSeq(s, 1, FirstBreak(s) - 1) >>
         \o SplitAfterSentence(SubSeq(s, RunEnd(s, FirstBreak(s), IsSpace) + 1, Len(s)))

\* the dictionaries segment_text returns
TextSegment(text, emotion, alpha, start_char, end_char) ==
    [text |-> text, emotion |-> emotion, alpha |-> alpha,
     start_char |-> start_char, end_char |-> end_char]

\* lines 254-260 and 273-280: the buffer is closed as a segment
ClosedSegment(current_segment, emotion, alpha, start_char) ==
    TextSegment(Strip(current_segment), emotion, alpha, start_char,
                start_char + Len(Strip(current_segment)))

\* lines 267-270: the sentence is added to the buffer
Joined(current_segment, sentence) ==
    IF current_segment # << >> THEN current_segment \o << " " >> \o sentence
    ELSE sentence

\* lines 246-280: the loop over the sentences from the 1-based index i on;
\* SegmentTextStep is one iteration for the stripped sentence
RECURSIVE SegmentTextLoop(_, _, _, _, _, _, _, _)
RECURSIVE SegmentTextStep(_, _, _, _, _, _, _, _, _)
SegmentTextLoop(sentences, i, current_segment, start_char, out, emotion, alpha, max_len) ==
    IF i > Len(sentences)
    THEN IF current_segment # << >>
         THEN Append(out, ClosedSegment(current_segment, emotion, alpha, start_char))
         ELSE out
    ELSE SegmentTextStep(sentences, i, Strip(sentences[i]), current_segment,
                         start_char, out, emotion, alpha, max_len)

SegmentTextStep(sentences, i, sentence, current_segment, start_char, out, emotion, alpha, max_len) ==
    IF sentence = << >>
    THEN SegmentTextLoop(sentences, i + 1, current_segment, start_char, out,
                         emotion, alpha, max_len)
    ELSE IF Len(current_segment) + Len(sentence) + 1 > max_len /\ current_segment # << >>
    THEN SegmentTextLoop(sentences, i + 1, sentence,
                         start_char + Len(Strip(sentence)) + 1,
                         Append(out, ClosedSegment(current_segment, emotion, alpha, start_char)),
                         emotion, alpha, max_len)
    ELSE SegmentTextLoop(sentences, i + 1, Joined(current_segment, sentence),
                         start_char, out, emotion, alpha, max_len)

\* lines 218-282
segment_text(text, emotion, alpha, max_len) ==
    IF Len(text) <= max_len
    THEN << TextSegment(text, emotion, alpha, 0, Len(text)) >>
    ELSE SegmentTextLoop(SplitAfterSentence(text), 1, << >>, 0, << >>,
                         emotion, alpha, max_len)

\* What one tts.infer call can do: write output_path and return, raise an
\* exception, or return without having written output_path.
Outcomes == {"ok", "raise", "nofile"}

\* ------------------------------------------------------------------------
\* Character configurations: the JSON files, the character_config embedded
\* in the n8n data, and the registry CharacterDialogueParser builds
\* ------------------------------------------------------------------------
\* a key the JSON object does not have
NoKey == "<no key>"

\* no path: args.config or config_path is None
NoPath == "<None>"

\* _create_temp_config line 228
DefaultVoiceFile == "examples/voice_01.wav"

\* One character entry of a configuration: the keys name, voice_file and
\* default_emotion of the JSON object, NoKey for a key it lacks.  The
\* numeric keys (emotion_intensity, speech_rate, pitch, volume) and
\* description have defaults everywhere and are left out.
Entry(name, voice_file, default_emotion) ==
    [name |-> name, voice_file |-> voice_file, default_emotion |-> default_emotion]

\* a mapping without characters
EmptyMap == [c \in {} |-> Entry(NoKey, NoKey, NoKey)]

\* a JSON configuration: has_characters says whether it has the key
\* 'characters', characters is the value of that key
ConfigJson(has_characters, chars) ==
    [kind |-> "json", has_characters |-> has_characters, characters |-> chars]

\* a path at which there is no file
NoFile == [kind |-> "nofile", has_characters |-> FALSE, characters |-> EmptyMap]

\* n8n data without the key character_config
NoConfig == [kind |-> "none", has_characters |-> FALSE, characters |-> EmptyMap]

\* config.get('characters', {}), line 104
CharactersOf(content) ==
    IF content.has_characters THEN content.characters ELSE EmptyMap

\* CharacterConfig(**char_data), lines 55-65: name and voice_file have no
\* default; without one of them the constructor raises TypeError
EntryAccepted(char_data) ==
    char_data.name # NoKey /\ char_data.voice_file # NoKey

\* the CharacterConfig of an accepted entry: default_emotion defaults to calm
CharacterConfig(char_data) ==
    Entry(char_data.name, char_data.voice_file,
          IF char_data.default_emotion = NoKey THEN "calm" ELSE char_data.default_emotion)

\* LoadError taking every entry as it is
LoadError_AcceptsIncomplete(content) ==
    IF content.kind # "json" THEN "NotFound" ELSE "none"

\* CharacterDialogueParser.__init__ (lines 82-106): how loading the file
\* content fails: load_config exits on FileNotFoundError, _parse_characters
\* raises TypeError on an entry that lacks a required field
LoadError(content) ==
    IF content.kind # "json" THEN "NotFound"
    ELSE IF \E c \in DOMAIN CharactersOf(content) : ~EntryAccepted(CharactersOf(content)[c])
    THEN "Malformed"
    ELSE "none"

\* _parse_characters (lines 101-106) on a content that loads
ParseCharacters(content) ==
    [c \in DOMAIN CharactersOf(content) |-> CharacterConfig(CharactersOf(content)[c])]

\* str(char_id)
IdString(char_id) ==
    IF char_id = <<"j","a","k","e">> THEN "jake"
    ELSE IF char_id = <<"s","a","r","a","h">> THEN "sarah"
    ELSE IF char_id = <<"b","o","b">> THEN "bob"
    ELSE "narrator"

\* _create_temp_config lines 226-235: the n8n entry in the expected format;
\* name defaults to the id, voice_file to examples/voice_01.wav, and
\* default_emotion is calm whatever the entry says
ConvertedChar(char_id, char_data) ==
    Entry(IF char_data.name = NoKey THEN IdString(char_id) ELSE char_data.name,
          IF char_data.voice_file = NoKey THEN DefaultVoiceFile ELSE char_data.voice_file,
          "calm")

\* lines 196-220: the minimal structure, with 'characters': {}
MinimalConfig == ConfigJson(TRUE, EmptyMap)

\* BaseConfig starting from the characters of the active registry instead of
\* the file at config_path
BaseConfig_FromActiveRegistry(content, active) == ConfigJson(TRUE, active)

\* lines 191-220: the base configuration is read from the file at
\* self.config_path; when that fails for any reason (no path, no file) the
\* minimal structure is taken.  active is the registry of the generator in
\* use, which the code does not consult.
BaseConfig(content, active) ==
    IF content.kind = "json" THEN content ELSE MinimalConfig

\* line 236 raises KeyError when the base configuration has no key
\* 'characters' and char_config has a character to put there
CreateTempRaises(base_config, char_config) ==
    /\ char_config.has_characters
    /\ DOMAIN char_config.characters # {}
    /\ ~base_config.has_characters

\* lines 223-236: base_config['characters'][char_id] = converted_char for
\* every character of char_config
Overlay(base_chars, new_chars) ==
    [c \in (DOMAIN base_chars) \cup (DOMAIN new_chars) |->
        IF c \in DOMAIN new_chars THEN ConvertedChar(c, new_chars[c]) ELSE base_chars[c]]

\* lines 222-240: what is dumped into the temporary file
MergedConfig(base_config, char_config) ==
    IF char_config.has_characters
    THEN ConfigJson(TRUE, Overlay(base_config.characters, char_config.characters))
    ELSE base_config

\* the names tempfile.NamedTemporaryFile gives, in the order of creation
TempNames == << "tmp1", "tmp2", "tmp3", "tmp4", "tmp5" >>

TempPath(n) == TempNames[n]

TempPaths == { TempNames[n] : n \in 1..Len(TempNames) }

\* the paths of this model: --config, the default configuration
\* ../config/character_config.json, and the temporary files
ConfigPaths == { "ext", "default" } \cup TempPaths

\* ------------------------------------------------------------------------
\* State
\* ------------------------------------------------------------------------
VARIABLES
    pieces,       \* how the input script was assembled (not program state)
    input_text,   \* the text handed to parse_text_with_characters
    characters,   \* CharacterDialogueParser.characters: the registered ids
    blines,       \* lines = text.split('\n')
    bk,           \* 1-based index of the next line of the loop over lines
    position,     \* the position counter
    segments,     \* the segments list
    bpc,          \* "call" | "loop" | "done"
    max_chars,    \* TextSegmenter.max_chars
    overlap_chars,\* TextSegmenter.overlap_chars
    segmented,    \* the segmented list of segment_dialogue
    sk,           \* 1-based index of the next segment of its loop
    spc,          \* "idle" | "call" | "loop" | "done"
    tts_loaded,   \* MultiCharacterEmotionGenerator.tts_model is not None
    gi,           \* index i of the loop over segmented_dialogue
    audio_segments, \* the audio_segments list: segment_<i>.wav is written i
    infer_calls,  \* the calls of tts.infer so far, with their outcome
    temp_files,   \* the i whose segment_<i>.wav exists in temp_dir
    audio_data,   \* the segments _concatenate_audio_segments loaded
    output_saved, \* the output file was written
    raised,       \* the exception that left generate_audio, "none" if none
    result,       \* what process_n8n_output returned, "none" before
    exit_code,    \* the exit status of main, -1 while running
    gpc,          \* position in process_n8n_output / generate_audio / main
    default_emotion,   \* EmotionTagParser.default_emotion
    default_emo_alpha, \* LongTextEmotionGenerator.default_emo_alpha
    segment_max_chars, \* max_chars of the generator's TextSegmenter
    emotion_segments,  \* what parse_emotion_tags returned
    all_segments,      \* the all_segments list of generate_from_text
    ak,           \* index i of the loop of generate_segments
    audio_files,  \* the audio_files list: segment_<i>.wav is written i
    a_calls,      \* the calls of self.tts.infer of this run, with their outcome
    a_temp_dir,   \* the i whose segment_<i>.wav exists in self.temp_dir
    a_written,    \* the i whose file a synthesis call of this run wrote
    a_run,        \* the number of generate_from_text calls begun
    success,      \* what generate_from_text returned, "none" before
    a_exit,       \* the exit status of main, -1 while running
    apc,          \* position in generate_from_text / main
    c_prog,       \* the program run: "ssh" (ssh_n8n_processor.py) or "mc"
    args_config,  \* args.config: the configuration path given, NoPath if none
    fs,           \* the configuration files: what each path holds
    n8n_data,     \* the input of the call: script_content and character_config
    config_path,  \* SSHN8NProcessor.config_path
    generator,    \* SSHN8NProcessor.generator: 0 is None, else an index of built
    built,        \* the registry of every generator constructed so far
    temp_count,   \* the number of temporary configuration files created
    temp_config,  \* the local temp_config of _update_character_config
    c_log,        \* the warnings logged
    c_used,       \* the generator whose generate_audio ran in this call, 0 if none
    c_update,     \* this call's configuration update: "none" | "applied" | "failed"
    c_error,      \* the failure of the last load of a registry, "none" if none
    c_result,     \* what the call returned, "none" before
    c_exit,       \* the exit status of main, -1 while running
    c_calls,      \* the number of process_n8n_output calls begun
    c_edits,      \* the number of times a configuration file was rewritten
    cpc           \* position in main / process_n8n_output

bvars == << pieces, input_text, characters, blines, bk, position, segments, bpc >>

svars == << max_chars, overlap_chars, segmented, sk, spc >>

gvars == << tts_loaded, gi, audio_segments, infer_calls, temp_files, audio_data,
           output_saved, raised, result, exit_code, gpc >>

avars == << default_emotion, default_emo_alpha, segment_max_chars, emotion_segments,
           all_segments, ak, audio_files, a_calls, a_temp_dir, a_written, a_run,
           success, a_exit, apc >>

cvars == << c_prog, args_config, fs, n8n_data, config_path, generator, built,
           temp_count, temp_config, c_log, c_used, c_update, c_error, c_result,
           c_exit, c_calls, c_edits, cpc >>

vars == << bvars, svars, gvars, avars, cvars >>

\* the variables of the components a specification leaves alone
IdleS ==
    /\ segmented = << >>
    /\ sk = 1
    /\ spc = "idle"

IdleA ==
    /\ default_emotion = calm
    /\ default_emo_alpha = 800
    /\ segment_max_chars = 200
    /\ emotion_segments = << >>
    /\ all_segments = << >>
    /\ ak = 0
    /\ audio_files = << >>
    /\ a_calls = << >>
    /\ a_temp_dir = {}
    /\ a_written = {}
    /\ a_run = 0
    /\ success = "none"
    /\ a_exit = 0 - 1
    /\ apc = "idle"

IdleG ==
    /\ tts_loaded = TRUE
    /\ gi = 0
    /\ audio_segments = << >>
    /\ infer_calls = << >>
    /\ temp_files = {}
    /\ audio_data = << >>
    /\ output_saved = FALSE
    /\ raised = "none"
    /\ result = "none"
    /\ exit_code = 0 - 1
    /\ gpc = "idle"

IdleC ==
    /\ c_prog = "none"
    /\ args_config = NoPath
    /\ fs = [p \in ConfigPaths |-> NoFile]
    /\ n8n_data = [script |-> FALSE, character_config |-> NoConfig]
    /\ config_path = NoPath
    /\ generator = 0
    /\ built = << >>
    /\ temp_count = 0
    /\ temp_config = NoPath
    /\ c_log = {}
    /\ c_used = 0
    /\ c_update = "none"
    /\ c_error = "none"
    /\ c_result = "none"
    /\ c_exit = 0 - 1
    /\ c_calls = 0
    /\ c_edits = 0
    /\ cpc = "idle"

\* ------------------------------------------------------------------------
\* Inputs of the Variant B parser
\* ------------------------------------------------------------------------
jake == <<"j","a","k","e">>

sarah == <<"s","a","r","a","h">>

bob == <<"b","o","b">>

excited == <<"e","x","c","i","t","e","d">>

\* A tag piece {[c]:[e:v]}.  num says whether v is a decimal literal and
\* milli is then its value in thousandths: what the author of the script
\* wrote, independent of how the parser reads it.
TagPiece(c, e, v, num, milli) ==
    [k |-> "tag",
     s |-> <<"{", "[">> \o c \o <<"]", ":", "[">> \o e \o <<":">> \o v \o <<"]", "}">>,
     c |-> c, e |-> e, v |-> v, num |-> num, milli |-> milli]

TextPiece(s) ==
    [k |-> "txt", s |-> s, c |-> << >>, e |-> << >>, v |-> << >>,
     num |-> FALSE, milli |-> 0]

NewlinePiece ==
    [k |-> "nl", s |-> <<"\n">>, c |-> << >>, e |-> << >>, v |-> << >>,
     num |-> FALSE, milli |-> 0]

T_narrator == TagPiece(narrator, calm, <<"0", ".", "3">>, TRUE, 300)

T_jake == TagPiece(jake, happy, <<"0", ".", "8">>, TRUE, 800)

T_sarah ==
    TagPiece(sarah, excited,
             <<"v","e","r","y"," ","e","n","t","h","u","s","i","a","s","t","i","c">>,
             FALSE, 0)

T_bob == TagPiece(bob, sad, <<"1", ".", "5">>, TRUE, 1500)

T_neg == TagPiece(jake, sad, <<"-", "1">>, TRUE, 0 - 1000)

X_hello == TextPiece(<<"H","e","l","l","o","."," ">>)

X_hi == TextPiece(<<"H","i"," ","t","h","e","r","e","!">>)

\* a tag whose closing tokens are swapped, as in test_parsing_only.py:30
X_malformed ==
    TextPiece(<<"{","[","n","a","r","r","a","t","o","r","]",":","[","s","a","d",":","x","}","]">>)

\* a tag whose value is not closed by "]", and a tag without the ":value" part
X_noclose ==
    TextPiece(<<"{","[","j","a","k","e","]",":","[","h","a","p","p","y",":","0",".","8","}">>)

X_novalue ==
    TextPiece(<<"{","[","j","a","k","e","]",":","[","h","a","p","p","y","]","}">>)

\* the text pieces that hold a tag the grammar does not match
MalformedPieces == { X_malformed, X_noclose, X_novalue }

\* whitespace only
X_space == TextPiece(<<" ", "\t">>)

\* the pieces scripts are freely assembled from
Pieces ==
    { T_narrator, T_jake, T_sarah, T_bob, X_hello, X_hi, NewlinePiece }

\* further scripts: a negative value, a malformed tag, whitespace-only text
ExtraScripts ==
    { << T_neg, X_hi >>,
      << X_hello, T_neg, X_hi >>,
      << X_malformed >>,
      << X_malformed, X_hi >>,
      << X_malformed, T_jake, X_hi >>,
      << T_jake, X_hi, NewlinePiece, X_malformed >>,
      << X_noclose, X_hi >>,
      << X_space, X_novalue, X_hi, X_space >>,
      << X_hello, X_malformed, NewlinePiece, X_noclose, X_hi, NewlinePiece, T_jake, X_hi >>,
      << X_space >>,
      << T_jake, X_space >>,
      << X_space, NewlinePiece, X_hi >>,
      << T_jake, X_space, T_bob, X_hi >>,
      << X_hello, T_jake, X_hi, NewlinePiece, X_hello, T_sarah, X_hi >> }

Scripts == UNION { [1..n -> Pieces] : n \in 0..MaxPieces } \cup ExtraScripts

\* the registries (sets of character ids) a configuration file may define
Registries == { {narrator, jake, sarah}, {jake} }

RECURSIVE Render(_)
Render(ps) == IF ps = << >> THEN << >> ELSE Head(ps).s \o Render(Tail(ps))

\* ------------------------------------------------------------------------
\* parse_text_with_characters, one loop iteration per step
\* ------------------------------------------------------------------------
InitB ==
    /\ pieces \in Scripts
    /\ input_text = Render(pieces)
    /\ characters \in Registries
    /\ blines = << >>
    /\ bk = 1
    /\ position = 0
    /\ segments = << >>
    /\ bpc = "call"
    /\ max_chars = DefaultMaxChars
    /\ overlap_chars = DefaultOverlapChars
    /\ IdleS
    /\ IdleG
    /\ IdleA
    /\ IdleC

\* lines 110-112
ParseEnter ==
    /\ bpc = "call"
    /\ blines' = Split(input_text, "\n")
    /\ bk' = 1
    /\ position' = 0
    /\ segments' = << >>
    /\ bpc' = "loop"
    /\ UNCHANGED << cvars, pieces, input_text, characters, svars, gvars, avars >>

\* lines 114-212: one iteration of `for line in lines`
ParseLineStep ==
    /\ bpc = "loop"
    /\ bk <= Len(blines)
    /\ LET new == ParseLine(blines[bk], position, characters)
       IN  /\ segments' = segments \o new
           /\ position' = position + Len(new)
    /\ bk' = bk + 1
    /\ UNCHANGED << cvars, pieces, input_text, characters, blines, bpc, svars, gvars, avars >>

\* line 214
ParseReturn ==
    /\ bpc = "loop"
    /\ bk > Len(blines)
    /\ bpc' = "done"
    /\ UNCHANGED << cvars, pieces, input_text, characters, blines, bk, position, segments, svars, gvars, avars >>

NextB == ParseEnter \/ ParseLineStep \/ ParseReturn

SpecB == InitB /\ [][NextB]_vars

\* ------------------------------------------------------------------------
\* What the script's author wrote, read off the pieces
\* ------------------------------------------------------------------------
\* the pieces of each line: the script cut at its newline pieces
RECURSIVE PieceLines(_)
PieceLines(ps) ==
    IF \A i \in 1..Len(ps) : ps[i].k # "nl"
    THEN << ps >>
    ELSE LET j == CHOOSE i \in 1..Len(ps) :
                      ps[i].k = "nl" /\ \A m \in 1..(i - 1) : ps[m].k # "nl"
         IN  << SubSeq(ps, 1, j - 1) >> \o PieceLines(SubSeq(ps, j + 1, Len(ps)))

\* index of the first tag piece at or after i, Len(L) + 1 when there is none
NextTag(L, i) ==
    CHOOSE j \in i..(Len(L) + 1) :
        /\ (j <= Len(L) => L[j].k = "tag")
        /\ \A m \in i..(j - 1) : L[m].k # "tag"

\* the trimmed text written in front of the first tag of the line L (the whole
\* trimmed line when L has no tag)
LeadText(L) == Strip(Render(SubSeq(L, 1, NextTag(L, 1) - 1)))

\* the tags of L from piece i on, each with the trimmed text written after it
\* up to the next tag or the end of the line
RECURSIVE TagSpans(_, _)
TagSpans(L, i) ==
    LET j == NextTag(L, i)
    IN  IF j > Len(L) THEN << >>
        ELSE << [tag  |-> L[j],
                 text |-> Strip(Render(SubSeq(L, j + 1, NextTag(L, j + 1) - 1)))] >>
             \o TagSpans(L, j + 1)

RECURSIVE SelectNonEmpty(_)
SelectNonEmpty(xs) ==
    IF xs = << >> THEN << >>
    ELSE IF Head(xs).text = << >> THEN SelectNonEmpty(Tail(xs))
    ELSE << Head(xs) >> \o SelectNonEmpty(Tail(xs))

\* the segments the current loop iteration appends
Appended == SubSeq(segments', Len(segments) + 1, Len(segments'))

\* the line the current loop iteration handles, as pieces
CurLine == PieceLines(pieces)[bk]

IsLineStep == bpc = "loop" /\ bk <= Len(blines) /\ bk' = bk + 1

\* the appended segments that carry text, without the one for the text in
\* front of the first tag
TagSegs ==
    LET ne == SelectNonEmpty(Appended)
    IN  IF LeadText(CurLine) # << >> /\ ne # << >> THEN Tail(ne) ELSE ne

\* the tags of the current line that are followed by non-empty trimmed text
TextSpans == SelectNonEmpty(TagSpans(CurLine, 1))

\* ------------------------------------------------------------------------
\* C5: in Variant B every non-blank line without a matching tag, and every
\* non-empty text in front of the first tag of a tagged line, is emitted as
\* one segment with character narrator, emotion calm, alpha 0.0 and
\* is_dialogue False, whatever the earlier lines held: the iteration for a
\* line appends that segment first, and nothing else for an untagged line.
\* ------------------------------------------------------------------------
C5_UntaggedIsNarration ==
    [][ IsLineStep =>
          LET lead == LeadText(CurLine)
              new  == Appended
          IN  /\ SubSeq(segments', 1, Len(segments)) = segments
              /\ lead # << >> =>
                    /\ new # << >>
                    /\ new[1].text = lead
                    /\ new[1].character = narrator
                    /\ new[1].emotion = calm
                    /\ new[1].alpha = 0
                    /\ new[1].is_dialogue = FALSE
              /\ NextTag(CurLine, 1) > Len(CurLine) =>
                    Len(new) = (IF lead # << >> THEN 1 ELSE 0) ]_vars

\* a script whose second line is untagged text after a tagged first line, and
\* a line with text in front of its first tag, both parsed
C5_Witness ==
    /\ bpc = "done"
    /\ Len(pieces) = 4
    /\ pieces[1].k = "tag" /\ pieces[2].k = "nl"
    /\ pieces[3].k = "txt" /\ pieces[4].k = "tag"
    /\ Len(segments) >= 2
    /\ segments[2].character = narrator /\ segments[2].alpha = 0
    /\ segments[2].text = Strip(pieces[3].s)

\* ------------------------------------------------------------------------
\* C7: in Variant B each tag followed by non-empty trimmed text yields a
\* segment with that text, attributed to the tag's character with
\* is_dialogue True when the id is registered, and to narrator with
\* is_dialogue False when it is not.
\* ------------------------------------------------------------------------
C7_Attribution ==
    [][ IsLineStep =>
          /\ Len(TagSegs) = Len(TextSpans)
          /\ \A i \in 1..Len(TextSpans) :
                LET sp  == TextSpans[i]
                    seg == TagSegs[i]
                    reg == sp.tag.c \in characters
                IN  /\ seg.text = sp.text
                    /\ seg.character = (IF reg THEN sp.tag.c ELSE narrator)
                    /\ seg.is_dialogue = reg ]_vars

\* a registered and an unregistered tag, each followed by text, were parsed
C7_Witness ==
    /\ bpc = "done"
    /\ pieces = << T_jake, X_hi, T_bob, X_hello >>
    /\ Len(segments) = 2
    /\ segments[1].character = jake /\ segments[1].is_dialogue
    /\ segments[2].character = narrator /\ ~segments[2].is_dialogue

\* ------------------------------------------------------------------------
\* C9: in Variant B a tag whose value is no number yields a segment with
\* alpha 0.8 and emo_text "<emotion>: <value>"; a tag whose value is a number
\* yields a segment with that value clamped to [0,1] and no emo_text.
\* ------------------------------------------------------------------------
C9_DescriptiveOrNumeric ==
    [][ IsLineStep =>
          /\ Len(TagSegs) = Len(TextSpans)
          /\ \A i \in 1..Len(TextSpans) :
                LET t   == TextSpans[i].tag
                    seg == TagSegs[i]
                IN  IF t.num
                    THEN /\ seg.alpha = (IF t.milli > 1000 THEN 1000
                                         ELSE IF t.milli < 0 THEN 0 ELSE t.milli)
                         /\ seg.emo_text = None
                    ELSE /\ seg.alpha = 800
                         /\ seg.emo_text = t.e \o <<":", " ">> \o t.v ]_vars

\* a descriptive tag and a tag with an out-of-range number were parsed
C9_Witness ==
    /\ bpc = "done"
    /\ pieces = << T_sarah, X_hi, T_bob, X_hello >>
    /\ sarah \in characters
    /\ Len(segments) = 2
    /\ segments[1].alpha = 800
    /\ segments[1].emo_text =
          <<"e","x","c","i","t","e","d",":"," ",
            "v","e","r","y"," ","e","n","t","h","u","s","i","a","s","t","i","c">>
    /\ segments[2].alpha = 1000 /\ segments[2].emo_text = None

\* ------------------------------------------------------------------------
\* C6: no parser emits a segment whose text is empty; in Variant B a tag
\* with no non-empty text behind it produces no segment.
\* ------------------------------------------------------------------------
C6_NoEmptySegment ==
    \A i \in 1..Len(segments) : segments[i].text # << >>

\* ------------------------------------------------------------------------
\* C8: a line with several Variant B tags yields one segment per tag in
\* order, a span tagged narrator being narration (is_dialogue False) and a
\* span tagged with a registered character dialogue:
\* "{[narrator]:[calm:0.3]}Hello. {[jake]:[happy:0.8]}Hi there!" with jake
\* registered yields (narrator, calm, 0.3, False), (jake, happy, 0.8, True).
\* ------------------------------------------------------------------------
C8_NarratorTagIsNarration ==
    bpc = "done" =>
        /\ \A i \in 1..Len(segments) :
              segments[i].character = narrator => ~segments[i].is_dialogue
        /\ (pieces = << T_narrator, X_hello, T_jake, X_hi >> /\ jake \in characters) =>
              /\ Len(segments) = 2
              /\ segments[1].text = <<"H","e","l","l","o",".">>
              /\ segments[1].character = narrator
              /\ segments[1].emotion = calm
              /\ segments[1].alpha = 300
              /\ segments[1].is_dialogue = FALSE
              /\ segments[2].text = <<"H","i"," ","t","h","e","r","e","!">>
              /\ segments[2].character = jake
              /\ segments[2].emotion = happy
              /\ segments[2].alpha = 800
              /\ segments[2].is_dialogue = TRUE

\* ------------------------------------------------------------------------
\* C11: in one parse call the position values of the emitted segments are
\* strictly increasing in scan order across the whole input: the counter
\* goes up by exactly one per emitted segment and is never set back at a
\* line boundary, so the n-th segment carries position n - 1 and the counter
\* equals the number of segments emitted so far.
\* ------------------------------------------------------------------------
C11_PositionStrictlyIncreasing ==
    /\ \A i \in 1..Len(segments) : segments[i].position = i - 1
    /\ \A i \in 1..Len(segments) : \A j \in 1..Len(segments) :
          i < j => segments[i].position < segments[j].position
    /\ position = Len(segments)

\* a parse over two lines, both tagged with text in front of the first tag:
\* the second line's segments continue the count of the first
C11_Witness ==
    /\ bpc = "done"
    /\ pieces = << X_hello, T_jake, X_hi, NewlinePiece, X_hello, T_sarah, X_hi >>
    /\ Len(blines) = 2
    /\ Len(segments) = 4
    /\ segments[3].text = <<"H","e","l","l","o",".">>
    /\ segments[3].position = 2
    /\ segments[4].position = 3

\* ------------------------------------------------------------------------
\* C21: parsing never fails.  Every iteration of the loop over lines runs to
\* its end and moves to the next line, whatever the line holds, and the call
\* returns the segment list; a non-blank line that holds a malformed or
\* mismatched tag and no tag of the grammar appends exactly one segment, the
\* whole trimmed line (brackets included) as narration: character narrator,
\* emotion calm, alpha 0.0, is_dialogue False, no emo_text.
\* ------------------------------------------------------------------------
HasMalformed(L) == \E i \in 1..Len(L) : L[i] \in MalformedPieces

C21_MalformedTagIsNarration ==
    [][ /\ (bpc = "loop" /\ bk <= Len(blines)) =>
              /\ bpc' = "loop"
              /\ bk' = bk + 1
              /\ SubSeq(segments', 1, Len(segments)) = segments
        /\ (bpc = "loop" /\ bk > Len(blines)) =>
              /\ bpc' = "done"
              /\ segments' = segments
        /\ (IsLineStep /\ HasMalformed(CurLine) /\ NextTag(CurLine, 1) > Len(CurLine)) =>
              /\ Len(Appended) = 1
              /\ Appended[1].text = Strip(Render(CurLine))
              /\ Appended[1].character = narrator
              /\ Appended[1].emotion = calm
              /\ Appended[1].alpha = 0
              /\ Appended[1].is_dialogue = FALSE
              /\ Appended[1].emo_text = None
              /\ Appended[1].position = Len(segments) ]_vars

\* three lines were parsed to the end: text with a tag whose closing tokens
\* are swapped, a tag with an unclosed value, and a well-formed tag
C21_Witness ==
    /\ bpc = "done"
    /\ pieces = << X_hello, X_malformed, NewlinePiece, X_noclose, X_hi, NewlinePiece, T_jake, X_hi >>
    /\ Len(segments) = 3
    /\ segments[1].text = Strip(X_hello.s \o X_malformed.s)
    /\ segments[2].text = X_noclose.s \o X_hi.s
    /\ ~segments[2].is_dialogue
    /\ segments[3].character \in {jake, narrator}

\* ------------------------------------------------------------------------
\* The single-speaker front end: parse_emotion_tags and segment_text as
\* generate_from_text of long_text_emotion_generator.py calls them
\* ------------------------------------------------------------------------
MaxAPieces == 3

\* A tag piece of Variant A: s is what was written, e the emotion and milli
\* the intensity (in thousandths) its author means by it; e is empty when
\* the token is no emotion name.
ATagPiece(s, e, milli) ==
    [k |-> "tag", s |-> s, c |-> << >>, e |-> e, v |-> << >>,
     num |-> TRUE, milli |-> milli]

A_happy == ATagPiece(<<"[","h","a","p","p","y",":","0",".","8","]">>, happy, 800)

A_sad == ATagPiece(<<"[","s","a","d","]">>, sad, 1000)

\* upper case, blanks and a value above 1
A_joy == ATagPiece(<<"["," ","J","o","y"," ",":"," ","1",".","5"," ","]">>, happy, 1000)

\* no emotion name
A_bored == ATagPiece(<<"[","b","o","r","e","d",":","0",".","5","]">>, << >>, 500)

\* a value that is no number
A_loud == ATagPiece(<<"[","a","n","g","r","y",":","l","o","u","d","]">>, angry, 1000)

\* a value below 0
A_neg == ATagPiece(<<"[","f","e","a","r",":","-","1","]">>, afraid, 0)

\* brackets with nothing between them are no tag
X_brackets == TextPiece(<<"[", "]">>)

APieces == { A_happy, A_sad, A_joy, A_bored, X_hello, X_hi, X_space }

AExtraScripts ==
    { << A_loud, X_hi >>,
      << X_hello, A_neg, X_hi >>,
      << A_joy, X_hi, A_loud, X_hi, A_neg, X_hello >>,
      << X_brackets >>,
      << X_hello, X_brackets, X_hi >>,
      << A_happy, X_brackets >>,
      << NewlinePiece >>,
      << X_hello, NewlinePiece, A_sad, NewlinePiece, X_hi >>,
      << A_happy, X_hello, X_hello, X_hi, X_hi >> }

AScripts == UNION { [1..n -> APieces] : n \in 0..MaxAPieces } \cup AExtraScripts

DefaultEmotions == { calm, happy }

\* segment budgets: one that splits the texts of this model and the default
SegmentMaxChoices == { 14, 200 }

InitA ==
    /\ pieces \in AScripts
    /\ input_text = Render(pieces)
    /\ characters = {}
    /\ blines = << >>
    /\ bk = 1
    /\ position = 0
    /\ segments = << >>
    /\ bpc = "idle"
    /\ max_chars = DefaultMaxChars
    /\ overlap_chars = DefaultOverlapChars
    /\ IdleS
    /\ IdleG
    /\ IdleC
    /\ default_emotion \in DefaultEmotions
    /\ default_emo_alpha = 800
    /\ segment_max_chars \in SegmentMaxChoices
    /\ emotion_segments = << >>
    /\ all_segments = << >>
    /\ ak = 0
    /\ audio_files = << >>
    /\ a_calls = << >>
    /\ a_temp_dir = {}
    /\ a_written = {}
    /\ a_run = 1
    /\ success = "none"
    /\ a_exit = 0 - 1
    /\ apc = "call"

\* dict.get('alpha', default) on a segment dictionary
GetAlpha(segment, default) ==
    IF "alpha" \in DOMAIN segment THEN segment.alpha ELSE default

\* generate_from_text lines 456-463: segment_text on every emotion segment
\* from the 1-based index i on
RECURSIVE SegmentAll(_, _, _, _)
SegmentAll(esegs, i, max_len, default) ==
    IF i > Len(esegs) THEN << >>
    ELSE segment_text(esegs[i].text, esegs[i].emotion, GetAlpha(esegs[i], default), max_len)
         \o SegmentAll(esegs, i + 1, max_len, default)

\* generate_from_text lines 444-448
AParse ==
    /\ apc = "call"
    /\ emotion_segments' = parse_emotion_tags(input_text, default_emotion)
    /\ IF emotion_segments' = << >>
       THEN success' = "False" /\ apc' = "returned"
       ELSE success' = success /\ apc' = "segment"
    /\ UNCHANGED << cvars, bvars, svars, gvars, default_emotion, default_emo_alpha,
                    segment_max_chars, all_segments, ak, audio_files, a_calls,
                    a_temp_dir, a_written, a_run, a_exit >>

\* generate_from_text lines 456-463
ASegment ==
    /\ apc = "segment"
    /\ all_segments' = SegmentAll(emotion_segments, 1, segment_max_chars, default_emo_alpha)
    /\ apc' = "loop"
    /\ UNCHANGED << cvars, bvars, svars, gvars, default_emotion, default_emo_alpha,
                    segment_max_chars, emotion_segments, ak, audio_files, a_calls,
                    a_temp_dir, a_written, a_run, success, a_exit >>

NextA == AParse \/ ASegment

SpecA == InitA /\ [][NextA]_vars

\* both parsers: a run of Variant B or a run of Variant A
InitP == InitB \/ InitA

NextP == NextB \/ NextA

SpecP == InitP /\ [][NextP]_vars

\* ------------------------------------------------------------------------
\* LongTextEmotionGenerator.generate_from_text under main of
\* long_text_emotion_generator.py, one call on a fresh generator
\* ------------------------------------------------------------------------
\* emotion_to_vector (lines 191-207): the vector is written as the emotion
\* whose component is 1.0; an emotion without a vector gets the one of calm
EmotionToVector(emotion) ==
    IF emotion \in SupportedEmotions THEN emotion ELSE calm

\* lines 352-374: the self.tts.infer call for segment, the i-th of the run
LongInferCall(segment, i, default, outcome) ==
    [i |-> i, text |-> segment.text, emo_vector |-> EmotionToVector(segment.emotion),
     emo_alpha |-> GetAlpha(segment, default), outcome |-> outcome]

LongScripts ==
    { << X_hi >>,
      << A_sad, X_hi >>,
      << X_hello, A_happy, X_hi >>,
      << A_sad, X_hello, X_hi >>,
      << A_happy, X_hello, A_sad, X_hi, A_joy, X_hello >>,
      << A_happy >>,
      << X_space >> }

\* --default-emo-alpha: the default 0.8 and another value
DefaultEmoAlphaChoices == { 800, 600 }

InitL ==
    /\ pieces \in LongScripts
    /\ input_text = Render(pieces)
    /\ characters = {}
    /\ blines = << >>
    /\ bk = 1
    /\ position = 0
    /\ segments = << >>
    /\ bpc = "idle"
    /\ max_chars = DefaultMaxChars
    /\ overlap_chars = DefaultOverlapChars
    /\ IdleS
    /\ IdleG
    /\ IdleC
    /\ default_emotion = calm
    /\ default_emo_alpha \in DefaultEmoAlphaChoices
    /\ segment_max_chars \in SegmentMaxChoices
    /\ emotion_segments = << >>
    /\ all_segments = << >>
    /\ ak = 0
    /\ audio_files = << >>
    /\ a_calls = << >>
    /\ a_temp_dir = {}
    /\ a_written = {}
    /\ a_run = 1
    /\ success = "none"
    /\ a_exit = 0 - 1
    /\ apc = "call"

\* the files of temp_dir after a synthesis call for segment_<i>.wav
WrittenBy(files, i, outcome) == IF outcome = "ok" THEN files \cup {i} ELSE files

\* lines 372-380: the path is kept when the call returned and
\* os.path.exists(output_path) holds; files is temp_dir after the call
AudioFilesAfter(files, kept, i, outcome) ==
    IF outcome # "raise" /\ i \in files THEN Append(kept, i) ELSE kept

\* generate_segments lines 337-382: one iteration of the loop
AGenerateChunk ==
    /\ apc = "loop"
    /\ ak < Len(all_segments)
    /\ \E outcome \in Outcomes :
          /\ a_calls' = Append(a_calls, LongInferCall(all_segments[ak + 1], ak,
                                                      default_emo_alpha, outcome))
          /\ a_temp_dir' = WrittenBy(a_temp_dir, ak, outcome)
          /\ a_written' = WrittenBy(a_written, ak, outcome)
          /\ audio_files' = AudioFilesAfter(a_temp_dir', audio_files, ak, outcome)
    /\ ak' = ak + 1
    /\ UNCHANGED << cvars, bvars, svars, gvars, default_emotion, default_emo_alpha,
                    segment_max_chars, emotion_segments, all_segments, a_run, success,
                    a_exit, apc >>

\* generate_from_text lines 474-481 with concatenate_audio: no file gives
\* False, otherwise the files are concatenated and saved
AGenerateDone ==
    /\ apc = "loop"
    /\ ak = Len(all_segments)
    /\ success' = IF audio_files = << >> THEN "False" ELSE "True"
    /\ apc' = "returned"
    /\ UNCHANGED << cvars, bvars, svars, gvars, default_emotion, default_emo_alpha,
                    segment_max_chars, emotion_segments, all_segments, ak,
                    audio_files, a_calls, a_temp_dir, a_written, a_run, a_exit >>

\* main lines 655-667
AMainExit ==
    /\ apc = "returned"
    /\ a_exit' = IF success = "True" THEN 0 ELSE 1
    /\ apc' = "exited"
    /\ UNCHANGED << cvars, bvars, svars, gvars, default_emotion, default_emo_alpha,
                    segment_max_chars, emotion_segments, all_segments, ak,
                    audio_files, a_calls, a_temp_dir, a_written, a_run, success >>

\* the number of generate_from_text calls made on one generator
MaxRuns == 2

\* generate_from_text is called again on the same generator with another
\* text: the locals of the call start afresh, self.temp_dir (created once
\* in __init__, lines 327-328) is the same directory with what it holds
AGenerateAgain ==
    /\ apc = "returned"
    /\ a_run < MaxRuns
    /\ pieces' \in LongScripts
    /\ input_text' = Render(pieces')
    /\ emotion_segments' = << >>
    /\ all_segments' = << >>
    /\ ak' = 0
    /\ audio_files' = << >>
    /\ a_calls' = << >>
    /\ a_written' = {}
    /\ a_run' = a_run + 1
    /\ success' = "none"
    /\ apc' = "call"
    /\ UNCHANGED << cvars, characters, blines, bk, position, segments, bpc, svars, gvars,
                    default_emotion, default_emo_alpha, segment_max_chars,
                    a_temp_dir, a_exit >>

NextL ==
    \/ AParse
    \/ ASegment
    \/ AGenerateChunk
    \/ AGenerateDone
    \/ AGenerateAgain
    \/ AMainExit

SpecL == InitL /\ [][NextL]_vars

\* ------------------------------------------------------------------------
\* C15: in the single-speaker generator a segment whose tag gives no
\* intensity, and text that no tag precedes, is synthesised with emo_alpha
\* equal to the configured default_emo_alpha: in a script whose tags are
\* all written without a value every synthesis call carries that value.
\* ------------------------------------------------------------------------
C15_DefaultEmoAlphaUsed ==
    (\A i \in 1..Len(pieces) : pieces[i].k = "tag" => pieces[i] = A_sad) =>
        \A k \in 1..Len(a_calls) : a_calls[k].emo_alpha = default_emo_alpha

\* ------------------------------------------------------------------------
\* C28: in the single-speaker generator, over any sequence of
\* generate_from_text calls on one generator, the artifact list assembled
\* for a call holds only artifacts that synthesis calls of that same call
\* wrote: a segment whose synthesis wrote no file in this call is skipped,
\* also when an earlier call left a file with the same segment index in the
\* shared temporary directory.
\* ------------------------------------------------------------------------
C28_OnlyOwnArtifacts ==
    \A k \in 1..Len(audio_files) : audio_files[k] \in a_written

\* ------------------------------------------------------------------------
\* C12: the tag's emotion token is normalised through the synonym table:
\* every emitted segment has an emotion among happy, angry, sad, afraid,
\* disgusted, melancholic, surprised and calm, the canonical mapping of the
\* token; so "{[sarah]:[excited:very enthusiastic]}Hi there!" gives a
\* segment with emotion happy.
\* ------------------------------------------------------------------------
C12_EmotionNormalized ==
    /\ \A i \in 1..Len(segments) : segments[i].emotion \in SupportedEmotions
    /\ (bpc = "done" /\ pieces = << T_sarah, X_hi >> /\ sarah \in characters) =>
          segments[1].emotion = map_emotion(excited)

\* ------------------------------------------------------------------------
\* C13: every segment either parser emits has alpha in [0, 1]: a numeric tag
\* value above 1 becomes 1.0 and one below 0 becomes 0.0, and in Variant A
\* a value behind ':' that is no number gives alpha 1.0 instead of an error.
\* ------------------------------------------------------------------------
C13_AlphaInUnitInterval ==
    /\ \A i \in 1..Len(segments) :
          segments[i].alpha >= 0 /\ segments[i].alpha <= 1000
    /\ \A i \in 1..Len(emotion_segments) :
          emotion_segments[i].alpha >= 0 /\ emotion_segments[i].alpha <= 1000
    /\ (bpc = "done" /\ pieces = << T_bob, X_hi >>) => segments[1].alpha = 1000
    /\ (bpc = "done" /\ pieces = << T_neg, X_hi >>) => segments[1].alpha = 0
    /\ (apc = "segment" /\ pieces = << A_joy, X_hi >>) =>
          emotion_segments[1].alpha = 1000
    /\ (apc = "segment" /\ pieces = << X_hello, A_neg, X_hi >>) =>
          emotion_segments[2].alpha = 0
    /\ (apc = "segment" /\ pieces = << A_loud, X_hi >>) =>
          (Len(emotion_segments) = 1 /\ emotion_segments[1].alpha = 1000)

\* Variant A has read a value above 1, a value that is no number and a
\* value below 0, each followed by text
C13_Witness ==
    /\ apc = "segment"
    /\ pieces = << A_joy, X_hi, A_loud, X_hi, A_neg, X_hello >>
    /\ Len(emotion_segments) = 3
    /\ emotion_segments[1].alpha = 1000
    /\ emotion_segments[2].alpha = 1000
    /\ emotion_segments[3].alpha = 0

\* ------------------------------------------------------------------------
\* What the author of a Variant A script wrote, read off the pieces
\* ------------------------------------------------------------------------
\* the text written between two tags, trimmed, under the emotion e and the
\* intensity a; nothing when it is empty
WrittenSpan(buf, e, a) ==
    IF Strip(buf) # << >> THEN << [text |-> Strip(buf), emotion |-> e, alpha |-> a] >>
    ELSE << >>

\* the emotion a tag piece sets: the default for a token that names none
MeantEmotion(piece, default) == IF piece.e = << >> THEN default ELSE piece.e

\* the non-empty trimmed spans of the pieces from i on, buf being the text
\* read since the last tag and e, a what that tag set
RECURSIVE WrittenSpans(_, _, _, _, _, _)
WrittenSpans(ps, i, e, a, buf, default) ==
    IF i > Len(ps) THEN WrittenSpan(buf, e, a)
    ELSE IF ps[i].k = "tag"
    THEN WrittenSpan(buf, e, a)
         \o WrittenSpans(ps, i + 1, MeantEmotion(ps[i], default), ps[i].milli, << >>, default)
    ELSE WrittenSpans(ps, i + 1, e, a, buf \o ps[i].s, default)

\* the emitted segments without their offsets
EmittedSpans ==
    [i \in 1..Len(emotion_segments) |->
        [text |-> emotion_segments[i].text, emotion |-> emotion_segments[i].emotion,
         alpha |-> emotion_segments[i].alpha]]

\* ------------------------------------------------------------------------
\* C14: Variant A emits exactly the non-empty trimmed spans between the
\* tags, in document order, each with the emotion and alpha of the nearest
\* tag in front of it, or with the default emotion and alpha 1.0 when no tag
\* is in front of it; text without any tag gives exactly one segment that
\* covers the whole trimmed text.
\* ------------------------------------------------------------------------
C14_SpansBetweenTags ==
    apc \in {"segment", "returned"} =>
        /\ Len(emotion_segments) = Len(WrittenSpans(pieces, 1, default_emotion, 1000, << >>, default_emotion))
        /\ \A i \in 1..Len(emotion_segments) :
              EmittedSpans[i] = WrittenSpans(pieces, 1, default_emotion, 1000, << >>, default_emotion)[i]
        /\ (\A i \in 1..Len(pieces) : pieces[i].k # "tag") =>
              /\ Len(emotion_segments) = 1
              /\ emotion_segments[1].text = Strip(input_text)

\* the same statement for the inputs that hold a tag or some text that is
\* not white space
C14_SpansBetweenTags_NonBlank ==
    (apc \in {"segment", "returned"} /\ FindBrackets(input_text) = << >> /\ Strip(input_text) = << >>)
    \/ C14_SpansBetweenTags

\* ------------------------------------------------------------------------
\* Inputs of the segmenter
\* ------------------------------------------------------------------------
SentencePieces ==
    { <<"A","b",".">>, <<"C","d","e","!">>, <<"F","?">>, <<"G","h","i","j","k">> }

RECURSIVE Concat(_)
Concat(ss) == IF ss = << >> THEN << >> ELSE Head(ss) \o Concat(Tail(ss))

\* one sentence that is longer than every budget of this model, with its
\* terminator, without it, and with two of them
LongSentences ==
    { <<"L","m","n","o","p","q",".">>, <<"L","m","n","o","p","q","r">>,
      <<"L","m","n","o","p","q","!","?">> }

SegmentTexts ==
    { Concat(ps) : ps \in UNION { [1..n -> SentencePieces] : n \in 1..MaxSentences } }
    \cup LongSentences

very == <<"v","e","r","y">>

\* segments as parse_text_with_characters emits them: numeric dialogue,
\* descriptive dialogue, untagged narration
RawSegments(pos) ==
    { DialogueSegment(t, jake, happy, 800, TRUE, pos, None) : t \in SegmentTexts }
    \cup
    { DialogueSegment(t, sarah, excited, 800, TRUE, pos,
                      excited \o <<":", " ">> \o very) : t \in SegmentTexts }
    \cup
    { DialogueSegment(t, narrator, calm, 0, FALSE, pos, None) : t \in SegmentTexts }

\* a second segment behind the first: a short one and one to be split
SecondSegments ==
    { DialogueSegment(<<"F","?">>, narrator, calm, 300, FALSE, 1, None),
      DialogueSegment(<<"A","b",".","C","d","e","!","F","?">>, sarah, excited, 800,
                      TRUE, 1, excited \o <<":", " ">> \o very) }

SegmentLists ==
    { << a >> : a \in RawSegments(0) }
    \cup { << a, b >> : a \in RawSegments(0), b \in SecondSegments }

\* segment budgets and overlaps, scaled down from 200 and 30
MaxCharsChoices == {4, 6}

OverlapChoices == {0, 2, 3}

\* ------------------------------------------------------------------------
\* segment_dialogue, one loop iteration per step
\* ------------------------------------------------------------------------
InitS ==
    /\ pieces = << >>
    /\ input_text = << >>
    /\ characters = {narrator, jake, sarah}
    /\ blines = << >>
    /\ bk = 1
    /\ position = 0
    /\ segments \in SegmentLists
    /\ bpc = "done"
    /\ max_chars \in MaxCharsChoices
    /\ overlap_chars \in OverlapChoices
    /\ segmented = << >>
    /\ sk = 1
    /\ spc = "call"
    /\ IdleG
    /\ IdleA
    /\ IdleC

\* line 364
SegmentEnter ==
    /\ spc = "call"
    /\ segmented' = << >>
    /\ sk' = 1
    /\ spc' = "loop"
    /\ UNCHANGED << cvars, avars, bvars, max_chars, overlap_chars, gvars >>

\* lines 366-372: one iteration of `for segment in segments`
SegmentStep ==
    /\ spc = "loop"
    /\ sk <= Len(segments)
    /\ segmented' = segmented \o SegmentOne(segments[sk], max_chars, overlap_chars)
    /\ sk' = sk + 1
    /\ UNCHANGED << cvars, avars, bvars, max_chars, overlap_chars, spc, gvars >>

\* line 374
SegmentReturn ==
    /\ spc = "loop"
    /\ sk > Len(segments)
    /\ spc' = "done"
    /\ UNCHANGED << cvars, avars, bvars, max_chars, overlap_chars, segmented, sk, gvars >>

NextS == SegmentEnter \/ SegmentStep \/ SegmentReturn

SpecS == InitS /\ [][NextS]_vars

\* ------------------------------------------------------------------------
\* C10: every chunk the segmenter produces from a segment has the segment's
\* character, emotion, alpha, is_dialogue and emo_text, also when the
\* segment is split.  (A chunk keeps its parent's position, and positions
\* are unique among the segments.)
\* ------------------------------------------------------------------------
C10_ChunksInheritAttribution ==
    \A i \in 1..Len(segmented) :
        \E j \in 1..Len(segments) :
            /\ segments[j].position = segmented[i].position
            /\ segments[j].character = segmented[i].character
            /\ segments[j].emotion = segmented[i].emotion
            /\ segments[j].alpha = segmented[i].alpha
            /\ segments[j].is_dialogue = segmented[i].is_dialogue
            /\ segments[j].emo_text = segmented[i].emo_text

\* both segmenters: a run of segment_dialogue or a run of the
\* single-speaker front end
InitT == InitS \/ InitA

NextT == NextS \/ NextA

SpecT == InitT /\ [][NextT]_vars

\* the step of segment_dialogue that handles segments[sk]
IsSegmentStep == spc = "loop" /\ sk <= Len(segments) /\ sk' = sk + 1

\* the step of generate_from_text that fills all_segments
IsASegmentStep == apc = "segment" /\ apc' = "loop"

\* ------------------------------------------------------------------------
\* C16: for a segment whose text is not longer than the budget the
\* segmenter returns exactly one chunk, identical to the segment in text and
\* in every attribution field.  In segment_dialogue the step for such a
\* segment appends the segment itself; in the single-speaker generator,
\* when no emotion segment is longer than the budget, all_segments holds
\* one chunk per emotion segment with its text, emotion and alpha.
\* ------------------------------------------------------------------------
C16_ShortSegmentUnchanged ==
    [][ /\ (IsSegmentStep /\ Len(segments[sk].text) <= max_chars) =>
              segmented' = Append(segmented, segments[sk])
        /\ (IsASegmentStep /\ \A j \in 1..Len(emotion_segments) :
                                  Len(emotion_segments[j].text) <= segment_max_chars) =>
              /\ Len(all_segments') = Len(emotion_segments)
              /\ \A j \in 1..Len(emotion_segments) :
                    /\ all_segments'[j].text = emotion_segments[j].text
                    /\ all_segments'[j].emotion = emotion_segments[j].emotion
                    /\ all_segments'[j].alpha = emotion_segments[j].alpha
      ]_vars

\* segment_dialogue has passed a short segment with a descriptive emotion
\* text through and has split the long one behind it
C16_Witness ==
    /\ spc = "done"
    /\ Len(segments) = 2
    /\ Len(segments[1].text) <= max_chars
    /\ segments[1].emo_text # None
    /\ Len(segments[2].text) > max_chars
    /\ Len(segmented) > 2
    /\ segmented[1] = segments[1]

\* text is one sentence: no terminator in front of its last character
SingleSentence(text) == \A k \in 1..(Len(text) - 1) : ~IsTerminator(text[k])

\* ------------------------------------------------------------------------
\* C17: a segment whose text is a single sentence longer than the budget,
\* with no sentence-terminal punctuation inside it, is emitted as exactly
\* one chunk holding the whole text, for every overlap: the step of
\* segment_dialogue for such a segment appends one chunk with that text.
\* ------------------------------------------------------------------------
C17_OversizedSentenceOneChunk ==
    [][ (/\ IsSegmentStep
         /\ Len(segments[sk].text) > max_chars
         /\ SingleSentence(segments[sk].text)) =>
            /\ Len(segmented') = Len(segmented) + 1
            /\ segmented'[Len(segmented')].text = segments[sk].text
      ]_vars

\* the chunks of the single-speaker segmenter keep to the budget, a single
\* oversized sentence excepted
LongChunksWithinBudget ==
    \A i \in 1..Len(all_segments) :
        \/ Len(all_segments[i].text) <= segment_max_chars
        \/ ~HasBreak(all_segments[i].text)

\* ------------------------------------------------------------------------
\* C18: every chunk the segmenter produces is at most max_chars long, unless
\* it consists of one single sentence that by itself exceeds max_chars; the
\* overlap seeded into a buffer counts towards the budget.
\* ------------------------------------------------------------------------
C18_ChunksWithinBudget ==
    /\ \A i \in 1..Len(segmented) :
          \/ Len(segmented[i].text) <= max_chars
          \/ SingleSentence(segmented[i].text)
    /\ LongChunksWithinBudget

\* ------------------------------------------------------------------------
\* C19: the chunks of one segment carry the parent's order and a sub-index,
\* so that over the flattened chunk sequence the order key strictly
\* increases and no two chunks share a key.  The only order field of a
\* chunk is position.
\* ------------------------------------------------------------------------
C19_ChunkKeysStrictlyIncrease ==
    \A i \in 1..Len(segmented) : \A j \in 1..Len(segmented) :
        i < j => segmented[i].position < segmented[j].position

\* the chunks the current step of segment_dialogue appends
NewChunks == SubSeq(segmented', Len(segmented) + 1, Len(segmented'))

\* the number of characters a chunk takes over from the chunk closed before it
SeedLen(prev) == Min(overlap_chars, Len(prev.text))

\* the last n characters of text
LastChars(text, n) == SubSeq(text, Len(text) - n + 1, Len(text))

\* ------------------------------------------------------------------------
\* C25: when the segmenter splits a segment with overlap_chars > 0, every
\* chunk after the first begins with exactly the last
\* min(overlap_chars, len(previous chunk)) characters of the chunk closed
\* just before it.
\* ------------------------------------------------------------------------
C25_ChunkBeginsWithOverlap ==
    [][ (IsSegmentStep /\ overlap_chars > 0) =>
          \A i \in 2..Len(NewChunks) :
              /\ Len(NewChunks[i].text) >= SeedLen(NewChunks[i - 1])
              /\ SubSeq(NewChunks[i].text, 1, SeedLen(NewChunks[i - 1]))
                    = LastChars(NewChunks[i - 1].text, SeedLen(NewChunks[i - 1]))
      ]_vars

\* "F?Ab.Cde!" was split with budget 4 and overlap 3: the chunk "F?" is
\* shorter than the overlap and is taken over whole, "F?Ab." leaves "Ab."
C25_Witness ==
    /\ spc = "done"
    /\ overlap_chars = 3
    /\ max_chars = 4
    /\ Len(segments) = 1
    /\ segments[1].text = <<"F","?","A","b",".","C","d","e","!">>
    /\ Len(segmented) >= 3
    /\ segmented[1].text = <<"F","?">>
    /\ segmented[2].text = <<"F","?","A","b",".">>
    /\ SubSeq(segmented[3].text, 1, 3) = <<"A","b",".">>

\* ------------------------------------------------------------------------
\* C26: the segmenter never emits a chunk that consists only of overlap
\* material copied from the preceding chunk: every chunk of a split segment
\* is non-empty and every chunk after the first is longer than the overlap
\* it took over, so that it holds at least one character of the original
\* text that no earlier chunk contributed, also when the text ends with a
\* sentence terminator.
\* ------------------------------------------------------------------------
C26_NoOverlapOnlyChunk ==
    [][ IsSegmentStep =>
          /\ \A i \in 1..Len(NewChunks) :
                Len(segments[sk].text) > 0 => Len(NewChunks[i].text) > 0
          /\ \A i \in 2..Len(NewChunks) :
                Len(NewChunks[i].text) > SeedLen(NewChunks[i - 1])
      ]_vars

\* the chunk texts from the i-th on, each without the characters it took
\* over from its predecessor
RECURSIVE OwnText(_, _)
OwnText(chunks, i) ==
    IF i > Len(chunks) THEN << >>
    ELSE IF i = 1 THEN chunks[1].text \o OwnText(chunks, 2)
    ELSE SubSeq(chunks[i].text, SeedLen(chunks[i - 1]) + 1, Len(chunks[i].text))
         \o OwnText(chunks, i + 1)

RECURSIVE SumLen(_)
SumLen(chunks) ==
    IF chunks = << >> THEN 0 ELSE Len(Head(chunks).text) + SumLen(Tail(chunks))

\* ------------------------------------------------------------------------
\* C27: segmentation loses and reorders no text: for every segment the
\* multi-character segmenter handles, removing from each chunk after the
\* first the overlap prefix seeded from its predecessor and concatenating
\* the chunk texts in order gives back the original text exactly, so the
\* summed chunk length is at least
\* len(original text) - (numChunks - 1) * overlap_chars.
\* ------------------------------------------------------------------------
C27_NoTextLost ==
    [][ IsSegmentStep =>
          /\ OwnText(NewChunks, 1) = segments[sk].text
          /\ SumLen(NewChunks)
                >= Len(segments[sk].text) - (Len(NewChunks) - 1) * overlap_chars
      ]_vars

\* "Ab.Cde!F?" was split with budget 4 and overlap 2 into more than two
\* chunks that overlap
C27_Witness ==
    /\ spc = "done"
    /\ overlap_chars = 2
    /\ max_chars = 4
    /\ Len(segments) = 1
    /\ segments[1].text = <<"A","b",".","C","d","e","!","F","?">>
    /\ Len(segmented) >= 3
    /\ segmented[1].text = <<"A","b",".">>
    /\ SubSeq(segmented[2].text, 1, 2) = <<"b",".">>
    /\ SumLen(segmented) > Len(segments[1].text)

\* ------------------------------------------------------------------------
\* MultiCharacterEmotionGenerator.generate_audio under
\* SSHN8NProcessor.process_n8n_output and main of ssh_n8n_processor.py
\* ------------------------------------------------------------------------
\* segment_chars=200 of process_n8n_output's call of generate_audio
SegmentChars == 200

\* AdjustAlpha without the min(1.0, ...) of line 523
AdjustAlpha_Unclamped(alpha, is_dialogue) ==
    IF alpha <= 100 THEN 0
    ELSE IF is_dialogue THEN (alpha * 12) \div 10
    ELSE (alpha * 8) \div 10

\* lines 516-526 of _generate_segment_audio, in thousandths
AdjustAlpha(alpha, is_dialogue) ==
    IF alpha <= 100 THEN 0
    ELSE IF is_dialogue THEN Min(1000, (alpha * 12) \div 10)
    ELSE (alpha * 8) \div 10

\* a value for an argument the call does not pass
Absent == 0 - 1

\* lines 545-583: the tts.infer call for segment, the i-th of the run, with
\* the adjusted alpha (kept as adjusted_alpha, also when the call passes no
\* emotion); voice is the id whose profile gives voice_file
InferCallWith(segment, i, adjusted_alpha, outcome) ==
    IF adjusted_alpha > 0 /\ segment.emo_text # None
    THEN [i |-> i, text |-> segment.text, voice |-> segment.character,
          mode |-> "emo_text", emo_text |-> segment.emo_text,
          emotion |-> << >>, emo_alpha |-> adjusted_alpha, outcome |-> outcome,
          adjusted_alpha |-> adjusted_alpha]
    ELSE IF adjusted_alpha > 0
    THEN [i |-> i, text |-> segment.text, voice |-> segment.character,
          mode |-> "emo_vector", emo_text |-> None,
          emotion |-> segment.emotion, emo_alpha |-> adjusted_alpha,
          outcome |-> outcome,
          adjusted_alpha |-> adjusted_alpha]
    ELSE [i |-> i, text |-> segment.text, voice |-> segment.character,
          mode |-> "plain", emo_text |-> None,
          emotion |-> << >>, emo_alpha |-> Absent, outcome |-> outcome,
          adjusted_alpha |-> adjusted_alpha]

InferCall(segment, i, outcome) ==
    InferCallWith(segment, i, AdjustAlpha(segment.alpha, segment.is_dialogue), outcome)

\* the n8n data of this specification carry a script and no character_config
\* tags of jake with the intensities 0.05, 0.5 and 0.9, and a tag of bob,
\* who is in no registry of this model, with 0.5
T_jake005 == TagPiece(jake, happy, <<"0", ".", "0", "5">>, TRUE, 50)

T_jake05 == TagPiece(jake, happy, <<"0", ".", "5">>, TRUE, 500)

T_jake09 == TagPiece(jake, happy, <<"0", ".", "9">>, TRUE, 900)

T_bob05 == TagPiece(bob, sad, <<"0", ".", "5">>, TRUE, 500)

GenScripts ==
    { << >>,
      << T_jake005, X_hi, NewlinePiece, T_jake05, X_hi, NewlinePiece,
         T_bob05, X_hello, NewlinePiece, T_jake09, X_hi >>,
      << T_narrator, X_hello, T_jake, X_hi >>,
      << X_hello, NewlinePiece, T_jake, X_hi >>,
      << T_jake, X_hi, NewlinePiece, T_sarah, X_hi, NewlinePiece, T_jake, X_hello >>,
      << T_jake, X_hi, NewlinePiece, T_narrator, X_hello, NewlinePiece,
         T_sarah, X_hi, NewlinePiece, T_jake, X_hello, NewlinePiece, T_jake, X_hi >> }

\* configurations with and without a narrator entry
GenRegistries == { {narrator, jake, sarah}, {jake, sarah} }

InitG ==
    /\ pieces \in GenScripts
    /\ input_text = Render(pieces)
    /\ characters \in GenRegistries
    /\ blines = << >>
    /\ bk = 1
    /\ position = 0
    /\ segments = << >>
    /\ bpc = "idle"
    /\ max_chars = DefaultMaxChars
    /\ overlap_chars = DefaultOverlapChars
    /\ IdleS
    /\ IdleA
    /\ IdleC
    /\ tts_loaded \in BOOLEAN
    /\ gi = 0
    /\ audio_segments = << >>
    /\ infer_calls = << >>
    /\ temp_files = {}
    /\ audio_data = << >>
    /\ output_saved = FALSE
    /\ raised = "none"
    /\ result = "none"
    /\ exit_code = 0 - 1
    /\ gpc = "call"

\* process_n8n_output lines 94-104: an empty script_content returns False
ProcessEnter ==
    /\ gpc = "call"
    /\ IF input_text = << >>
       THEN result' = "False" /\ gpc' = "returned"
       ELSE result' = result /\ gpc' = "generate"
    /\ UNCHANGED << cvars, avars, bvars, svars, tts_loaded, gi, audio_segments, infer_calls,
                    temp_files, audio_data, output_saved, raised, exit_code >>

\* generate_audio lines 461-483: parse, segment, start the loop
GenerateEnter ==
    /\ gpc = "generate"
    /\ segments' = parse_text_with_characters(input_text, characters)
    /\ max_chars' = SegmentChars
    /\ segmented' = segment_dialogue(segments', SegmentChars, overlap_chars)
    /\ audio_segments' = << >>
    /\ temp_files' = {}
    /\ gi' = 0
    /\ gpc' = "loop"
    /\ UNCHANGED << cvars, avars, pieces, input_text, characters, blines, bk, position, bpc,
                    overlap_chars, sk, spc, tts_loaded, infer_calls, audio_data,
                    output_saved, raised, result, exit_code >>

\* lines 486-492 with _generate_segment_audio lines 509-511: without a model
\* the segment is skipped
GenerateChunkNoModel ==
    /\ gpc = "loop"
    /\ gi < Len(segmented)
    /\ ~tts_loaded
    /\ gi' = gi + 1
    /\ UNCHANGED << cvars, avars, bvars, svars, tts_loaded, audio_segments, infer_calls,
                    temp_files, audio_data, output_saved, raised, result,
                    exit_code, gpc >>

\* lines 486-492 with _generate_segment_audio line 514: the lookup of an id
\* that is not registered raises KeyError outside the try of line 529; it
\* leaves generate_audio through the finally of lines 501-503
GenerateChunkKeyError ==
    /\ gpc = "loop"
    /\ gi < Len(segmented)
    /\ tts_loaded
    /\ segmented[gi + 1].character \notin characters
    /\ raised' = "KeyError"
    /\ temp_files' = {}
    /\ gpc' = "raised"
    /\ UNCHANGED << cvars, avars, bvars, svars, tts_loaded, gi, audio_segments, infer_calls,
                    audio_data, output_saved, result, exit_code >>

\* lines 486-492 with _generate_segment_audio lines 513-588: one tts.infer
\* call; its path is appended unless the call raised
GenerateChunkInfer ==
    /\ gpc = "loop"
    /\ gi < Len(segmented)
    /\ tts_loaded
    /\ segmented[gi + 1].character \in characters
    /\ \E outcome \in Outcomes :
          /\ infer_calls' = Append(infer_calls, InferCall(segmented[gi + 1], gi, outcome))
          /\ temp_files' = IF outcome = "ok" THEN temp_files \cup {gi} ELSE temp_files
          /\ audio_segments' = IF outcome = "raise" THEN audio_segments
                               ELSE Append(audio_segments, gi)
    /\ gi' = gi + 1
    /\ UNCHANGED << cvars, avars, bvars, svars, tts_loaded, audio_data, output_saved, raised,
                    result, exit_code, gpc >>

\* _concatenate_audio_segments lines 612-619: the paths that load
Loadable(paths, files) ==
    LET Exists(i) == i \in files IN SelectSeq(paths, Exists)

\* lines 494-503 with _concatenate_audio_segments: the loop is over
GenerateFinish ==
    /\ gpc = "loop"
    /\ gi = Len(segmented)
    /\ audio_data' = Loadable(audio_segments, temp_files)
    /\ output_saved' = (Loadable(audio_segments, temp_files) # << >>)
    /\ temp_files' = {}
    /\ gpc' = "generated"
    /\ UNCHANGED << cvars, avars, bvars, svars, tts_loaded, gi, audio_segments, infer_calls,
                    raised, result, exit_code >>

\* process_n8n_output lines 117-123
ProcessReturn ==
    /\ gpc \in {"generated", "raised"}
    /\ result' = IF gpc = "generated" THEN "True" ELSE "False"
    /\ gpc' = "returned"
    /\ UNCHANGED << cvars, avars, bvars, svars, tts_loaded, gi, audio_segments, infer_calls,
                    temp_files, audio_data, output_saved, raised, exit_code >>

\* main lines 399-404
MainExit ==
    /\ gpc = "returned"
    /\ exit_code' = IF result = "True" THEN 0 ELSE 1
    /\ gpc' = "exited"
    /\ UNCHANGED << cvars, avars, bvars, svars, tts_loaded, gi, audio_segments, infer_calls,
                    temp_files, audio_data, output_saved, raised, result >>

NextG ==
    \/ ProcessEnter
    \/ GenerateEnter
    \/ GenerateChunkNoModel
    \/ GenerateChunkKeyError
    \/ GenerateChunkInfer
    \/ GenerateFinish
    \/ ProcessReturn
    \/ MainExit

SpecG == InitG /\ [][NextG]_vars

\* the chunks (by index) whose synthesis call produced its artifact
Succeeded ==
    { infer_calls[k].i : k \in { n \in 1..Len(infer_calls) : infer_calls[n].outcome = "ok" } }

\* ------------------------------------------------------------------------
\* C1: in the dispatching stage every chunk of the flattened chunk sequence
\* is handed to the synthesis collaborator exactly once and in sequence
\* order; a failure on one chunk never keeps a later chunk from being
\* attempted.  So when the run is over the call log lists the chunks 0, 1,
\* ..., n-1.
\* ------------------------------------------------------------------------
C1_EveryChunkDispatchedOnce ==
    gpc = "exited" =>
        /\ Len(infer_calls) = Len(segmented)
        /\ \A k \in 1..Len(infer_calls) : infer_calls[k].i = k - 1

\* ------------------------------------------------------------------------
\* C2: whenever at least one chunk succeeds, the artifact list handed to
\* assembly is exactly the successful chunks in document order and the run
\* finishes successfully.
\* ------------------------------------------------------------------------
C2_SuccessfulSubsequenceAssembled ==
    (gpc = "exited" /\ Succeeded # {}) =>
        /\ { audio_segments[k] : k \in 1..Len(audio_segments) } = Succeeded
        /\ \A k \in 1..(Len(audio_segments) - 1) : audio_segments[k] < audio_segments[k + 1]
        /\ result = "True"
        /\ exit_code = 0

\* ------------------------------------------------------------------------
\* C3: if no chunk of a run yields a usable audio artifact, the run is
\* reported as failed to its caller: failure return value and non-zero exit.
\* ------------------------------------------------------------------------
C3_NoAudioIsFailure ==
    (gpc = "exited" /\ Succeeded = {}) => (result = "False" /\ exit_code = 1)

\* ------------------------------------------------------------------------
\* C4: resolving the character profile of a chunk during dispatching never
\* fails, also for a narration chunk under a configuration without a
\* narrator entry; the run is never aborted by the lookup.
\* ------------------------------------------------------------------------
C4_ProfileResolutionNeverFails ==
    raised # "KeyError"

\* ------------------------------------------------------------------------
\* C20: the intensity used for the synthesis of a chunk is adjust(alpha,
\* is_dialogue): 0.0 when alpha <= 0.1, otherwise min(1.0, alpha * 1.2) for
\* dialogue and alpha * 0.8 for narration; adjust(0.05, dialogue) = 0.0,
\* adjust(0.5, dialogue) = 0.6, adjust(0.5, narration) = 0.4,
\* adjust(0.9, dialogue) = 1.0, and the result is always in [0, 1].
\* ------------------------------------------------------------------------
C20_AdjustedIntensity ==
    \A k \in 1..Len(infer_calls) :
        /\ infer_calls[k].adjusted_alpha >= 0
        /\ infer_calls[k].adjusted_alpha <= 1000
        /\ segmented[infer_calls[k].i + 1].alpha <= 100 =>
              infer_calls[k].adjusted_alpha = 0
        /\ (segmented[infer_calls[k].i + 1].alpha > 100
              /\ segmented[infer_calls[k].i + 1].is_dialogue) =>
              \/ infer_calls[k].adjusted_alpha * 10 = segmented[infer_calls[k].i + 1].alpha * 12
              \/ /\ infer_calls[k].adjusted_alpha = 1000
                 /\ segmented[infer_calls[k].i + 1].alpha * 12 >= 10000
        /\ (segmented[infer_calls[k].i + 1].alpha > 100
              /\ ~segmented[infer_calls[k].i + 1].is_dialogue) =>
              infer_calls[k].adjusted_alpha * 10 = segmented[infer_calls[k].i + 1].alpha * 8
        /\ (segmented[infer_calls[k].i + 1].alpha = 50
              /\ segmented[infer_calls[k].i + 1].is_dialogue) =>
              infer_calls[k].adjusted_alpha = 0
        /\ (segmented[infer_calls[k].i + 1].alpha = 500
              /\ segmented[infer_calls[k].i + 1].is_dialogue) =>
              infer_calls[k].adjusted_alpha = 600
        /\ (segmented[infer_calls[k].i + 1].alpha = 500
              /\ ~segmented[infer_calls[k].i + 1].is_dialogue) =>
              infer_calls[k].adjusted_alpha = 400
        /\ (segmented[infer_calls[k].i + 1].alpha = 900
              /\ segmented[infer_calls[k].i + 1].is_dialogue) =>
              infer_calls[k].adjusted_alpha = 1000

\* the four chunks of the script with 0.05, 0.5 (dialogue), 0.5 (narration)
\* and 0.9 have been handed to synthesis
C20_Witness ==
    /\ gpc = "exited"
    /\ Len(infer_calls) = 4
    /\ segmented[1].alpha = 50 /\ segmented[1].is_dialogue
    /\ infer_calls[1].adjusted_alpha = 0
    /\ segmented[2].alpha = 500 /\ segmented[2].is_dialogue
    /\ infer_calls[2].adjusted_alpha = 600
    /\ segmented[3].alpha = 500 /\ ~segmented[3].is_dialogue
    /\ infer_calls[3].adjusted_alpha = 400
    /\ segmented[4].alpha = 900 /\ segmented[4].is_dialogue
    /\ infer_calls[4].adjusted_alpha = 1000

\* ------------------------------------------------------------------------
\* Character configuration of a run: main of ssh_n8n_processor.py with
\* SSHN8NProcessor (--input-json), and main of
\* multi_character_emotion_generator.py (--input with a JSON file)
\* ------------------------------------------------------------------------
\* the number of process_n8n_output calls made on one processor
MaxCalls == 2

\* the number of times a configuration file is rewritten between two calls
MaxEdits == 1

BobEntry == Entry("Bob", "bob.wav", "happy")

\* an entry CharacterConfig does not accept: no name
BobNoName == Entry(NoKey, "bob.wav", NoKey)

\* what the file given by --config may hold: nothing, a character of its
\* own, or an entry without voice_file
ExtContents ==
    { NoFile,
      ConfigJson(TRUE, <<"s","a","r","a","h">> :> Entry("Sarah", "ext.wav", NoKey)),
      ConfigJson(TRUE, <<"s","a","r","a","h">> :> Entry("Sarah", NoKey, NoKey)) }

\* what the default configuration may hold: nothing, settings without the
\* key 'characters', the character bob, or bob without a name
DefaultContents ==
    { NoFile,
      ConfigJson(FALSE, EmptyMap),
      ConfigJson(TRUE, <<"b","o","b">> :> BobEntry),
      ConfigJson(TRUE, <<"b","o","b">> :> BobNoName) }

\* what a configuration file may hold after it was rewritten
RewrittenContents ==
    { ConfigJson(TRUE, <<"b","o","b">> :> BobNoName), NoFile }

\* embedded character configurations in the n8n format: jake with all keys,
\* sarah with no key at all, and bob with another voice
EmbeddedConfigs ==
    { ConfigJson(TRUE, <<"j","a","k","e">> :> Entry("Jake", "jake.wav", "happy")),
      ConfigJson(TRUE, <<"s","a","r","a","h">> :> Entry(NoKey, NoKey, NoKey)),
      ConfigJson(TRUE, <<"b","o","b">> :> Entry("Bobby", "new.wav", NoKey)) }

\* n8n data: script_content with or without character_config, and data
\* whose script_content is empty
N8nInputs ==
    { [script |-> TRUE, character_config |-> c] : c \in EmbeddedConfigs \cup {NoConfig} }
    \cup { [script |-> FALSE, character_config |-> c] : c \in EmbeddedConfigs }

\* `if embedded_config:` / `if char_config:`
Embedded(data) == data.character_config.kind = "json"

InitC ==
    /\ pieces = << >>
    /\ input_text = << >>
    /\ characters = {}
    /\ blines = << >>
    /\ bk = 1
    /\ position = 0
    /\ segments = << >>
    /\ bpc = "idle"
    /\ max_chars = DefaultMaxChars
    /\ overlap_chars = DefaultOverlapChars
    /\ IdleS
    /\ IdleG
    /\ IdleA
    /\ c_prog \in {"ssh", "mc"}
    /\ args_config \in {NoPath, "ext"}
    /\ \E ext \in ExtContents : \E def \in DefaultContents :
          /\ args_config = NoPath => ext = NoFile
          /\ fs = [p \in ConfigPaths |->
                     IF p = "ext" THEN ext ELSE IF p = "default" THEN def ELSE NoFile]
    /\ n8n_data \in N8nInputs
    /\ c_prog = "mc" => n8n_data.script
    /\ config_path = NoPath
    /\ generator = 0
    /\ built = << >>
    /\ temp_count = 0
    /\ temp_config = NoPath
    /\ c_log = {}
    /\ c_used = 0
    /\ c_update = "none"
    /\ c_error = "none"
    /\ c_result = "none"
    /\ c_exit = 0 - 1
    /\ c_calls = 0
    /\ c_edits = 0
    /\ cpc = "main"

\* ssh main lines 330-358: config_to_use; an embedded configuration sets it
\* to None whatever --config says, and None is replaced by the default
\* configuration when that file exists
SshConfigToUse(given, embedded, default_exists) ==
    IF given # NoPath /\ ~embedded THEN given
    ELSE IF default_exists THEN "default"
    ELSE NoPath

\* lines 341-342 of ssh main, 722-723 of the multi-character main: the
\* warning when --config and an embedded configuration are both given
LogBoth(log, given, embedded) ==
    IF embedded /\ given # NoPath THEN log \cup {"both"} ELSE log

\* what a path holds; None holds nothing
ContentAt(files, path) == IF path = NoPath THEN NoFile ELSE files[path]

\* the registry of the generator g, empty for None
RegistryOf(regs, g) == IF g = 0 THEN EmptyMap ELSE regs[g]

\* ssh main lines 329-371: the configuration is determined and the
\* processor constructed; SSHN8NProcessor.__init__ (lines 52-61) builds the
\* generator when a path is given.  A path that does not exist (lines
\* 361-363) and a registry that does not load end the program with status 1.
SshMain ==
    /\ cpc = "main"
    /\ c_prog = "ssh"
    /\ c_log' = LogBoth(c_log, args_config, Embedded(n8n_data))
    /\ LET use == SshConfigToUse(args_config, Embedded(n8n_data),
                                 fs["default"].kind # "nofile")
           err == IF use = NoPath THEN "none" ELSE LoadError(fs[use])
       IN  /\ c_error' = err
           /\ IF err # "none"
              THEN /\ c_exit' = 1
                   /\ cpc' = "exited"
                   /\ UNCHANGED << config_path, generator, built, c_calls >>
              ELSE /\ config_path' = use
                   /\ built' = IF use = NoPath THEN built
                               ELSE Append(built, ParseCharacters(fs[use]))
                   /\ generator' = IF use = NoPath THEN 0 ELSE Len(built) + 1
                   /\ c_calls' = 1
                   /\ cpc' = "ready"
                   /\ c_exit' = c_exit
    /\ UNCHANGED << bvars, svars, gvars, avars, c_prog, args_config, fs, n8n_data,
                    temp_count, temp_config, c_used, c_update, c_result, c_edits >>

\* process_n8n_output lines 94-104: without script_content the call returns
\* False at once; with a character_config the configuration is updated
ProcessN8nEnter ==
    /\ cpc = "ready"
    /\ IF ~n8n_data.script
       THEN c_result' = "False" /\ cpc' = "returned"
       ELSE /\ c_result' = c_result
            /\ cpc' = IF Embedded(n8n_data) THEN "update" ELSE "generate"
    /\ UNCHANGED << bvars, svars, gvars, avars, c_prog, args_config, fs, n8n_data,
                    config_path, generator, built, temp_count, temp_config, c_log,
                    c_used, c_update, c_error, c_exit, c_calls, c_edits >>

\* _update_character_config line 167 with _create_temp_config (lines
\* 180-243): the merged configuration is written to a new temporary file;
\* the KeyError of line 236 is caught at line 176 and the call goes on
UpdateCreateTemp ==
    /\ cpc = "update"
    /\ LET base_config == BaseConfig(ContentAt(fs, config_path), RegistryOf(built, generator))
       IN  IF CreateTempRaises(base_config, n8n_data.character_config)
           THEN /\ c_update' = "failed"
                /\ cpc' = "generate"
                /\ UNCHANGED << fs, temp_count, temp_config >>
           ELSE /\ temp_count' = temp_count + 1
                /\ temp_config' = TempPath(temp_count + 1)
                /\ fs' = [fs EXCEPT ![TempPath(temp_count + 1)] =
                                MergedConfig(base_config, n8n_data.character_config)]
                /\ c_update' = c_update
                /\ cpc' = "reinit"
    /\ UNCHANGED << bvars, svars, gvars, avars, c_prog, args_config, n8n_data,
                    config_path, generator, built, c_log, c_used, c_error, c_result,
                    c_exit, c_calls, c_edits >>

\* GeneratorAfterFailure dropping the generator when the rebuild fails
GeneratorAfterFailure_Dropped(g) == 0

\* lines 176-178: "Continue with existing configuration"; self.generator is
\* assigned at line 70 only when the constructor returned
GeneratorAfterFailure(g) == g

\* _update_character_config lines 170-178 with _initialize_generator (lines
\* 63-79): a new generator is constructed from the temporary file and
\* assigned, and the file removed; when the constructor raises, the
\* exception is logged at line 177 and the call goes on
UpdateReinitialize ==
    /\ cpc = "reinit"
    /\ c_error' = LoadError(fs[temp_config])
    /\ IF LoadError(fs[temp_config]) = "none"
       THEN /\ built' = Append(built, ParseCharacters(fs[temp_config]))
            /\ generator' = Len(built) + 1
            /\ fs' = [fs EXCEPT ![temp_config] = NoFile]
            /\ c_update' = "applied"
       ELSE /\ built' = built
            /\ generator' = GeneratorAfterFailure(generator)
            /\ fs' = fs
            /\ c_update' = "failed"
    /\ temp_config' = NoPath
    /\ cpc' = "generate"
    /\ UNCHANGED << bvars, svars, gvars, avars, c_prog, args_config, n8n_data,
                    config_path, temp_count, c_log, c_used, c_result, c_exit, c_calls,
                    c_edits >>

\* process_n8n_output lines 107-123: generate_audio of the active
\* generator; without a generator the AttributeError is caught at line 120,
\* as is whatever generate_audio raises
ProcessN8nGenerate ==
    /\ cpc = "generate"
    /\ c_prog = "ssh"
    /\ IF generator = 0
       THEN c_used' = 0 /\ c_result' = "False"
       ELSE /\ c_used' = generator
            /\ \E outcome \in {"ok", "raise"} :
                  c_result' = IF outcome = "ok" THEN "True" ELSE "False"
    /\ cpc' = "returned"
    /\ UNCHANGED << bvars, svars, gvars, avars, c_prog, args_config, fs, n8n_data,
                    config_path, generator, built, temp_count, temp_config, c_log,
                    c_update, c_error, c_exit, c_calls, c_edits >>

\* ssh main lines 399-404
SshMainExit ==
    /\ cpc = "returned"
    /\ c_exit' = IF c_result = "True" THEN 0 ELSE 1
    /\ cpc' = "exited"
    /\ UNCHANGED << bvars, svars, gvars, avars, c_prog, args_config, fs, n8n_data,
                    config_path, generator, built, temp_count, temp_config, c_log,
                    c_used, c_update, c_error, c_result, c_calls, c_edits >>

\* process_n8n_output is called again on the same processor
ProcessN8nAgain ==
    /\ cpc = "returned"
    /\ c_calls < MaxCalls
    /\ n8n_data' \in N8nInputs
    /\ c_calls' = c_calls + 1
    /\ c_used' = 0
    /\ c_update' = "none"
    /\ c_error' = "none"
    /\ c_result' = "none"
    /\ cpc' = "ready"
    /\ UNCHANGED << bvars, svars, gvars, avars, c_prog, args_config, fs, config_path,
                    generator, built, temp_count, temp_config, c_log, c_exit, c_edits >>

\* between two calls the file at config_path is rewritten or removed by
\* whoever maintains it; _create_temp_config reads it anew at every update
BaseConfigRewritten ==
    /\ cpc = "returned"
    /\ c_calls < MaxCalls
    /\ c_edits < MaxEdits
    /\ config_path # NoPath
    /\ \E content \in RewrittenContents :
          fs' = [fs EXCEPT ![config_path] = content]
    /\ c_edits' = c_edits + 1
    /\ UNCHANGED << bvars, svars, gvars, avars, c_prog, args_config, n8n_data,
                    config_path, generator, built, temp_count, temp_config, c_log,
                    c_used, c_update, c_error, c_result, c_exit, c_calls, cpc >>

\* multi-character main lines 719-748: an embedded configuration is dumped
\* as it is into a temporary file, which becomes config_to_use; otherwise
\* --config, otherwise the default configuration; a path that does not
\* exist ends the program with status 1
McMainConfig ==
    /\ cpc = "main"
    /\ c_prog = "mc"
    /\ c_log' = LogBoth(c_log, args_config, Embedded(n8n_data))
    /\ IF Embedded(n8n_data)
       THEN /\ temp_count' = temp_count + 1
            /\ fs' = [fs EXCEPT ![TempPath(temp_count + 1)] = n8n_data.character_config]
            /\ config_path' = TempPath(temp_count + 1)
            /\ UNCHANGED << c_error, c_exit >>
            /\ cpc' = "construct"
       ELSE /\ UNCHANGED << temp_count, fs >>
            /\ config_path' = IF args_config # NoPath THEN args_config ELSE "default"
            /\ IF fs[config_path'].kind = "nofile"
               THEN c_error' = "NotFound" /\ c_exit' = 1 /\ cpc' = "exited"
               ELSE c_error' = c_error /\ c_exit' = c_exit /\ cpc' = "construct"
    /\ UNCHANGED << bvars, svars, gvars, avars, c_prog, args_config, n8n_data,
                    generator, built, temp_config, c_used, c_update, c_result, c_calls,
                    c_edits >>

\* multi-character main lines 754-766: the generator is constructed from
\* config_to_use and the temporary file removed; sys.exit of load_config and
\* the TypeError of _parse_characters end the program
McMainConstruct ==
    /\ cpc = "construct"
    /\ c_error' = LoadError(fs[config_path])
    /\ IF LoadError(fs[config_path]) = "none"
       THEN /\ built' = Append(built, ParseCharacters(fs[config_path]))
            /\ generator' = Len(built) + 1
            /\ fs' = IF Embedded(n8n_data) THEN [fs EXCEPT ![config_path] = NoFile] ELSE fs
            /\ c_exit' = c_exit
            /\ cpc' = "generate"
       ELSE /\ UNCHANGED << built, generator, fs >>
            /\ c_exit' = 1
            /\ cpc' = "exited"
    /\ UNCHANGED << bvars, svars, gvars, avars, c_prog, args_config, n8n_data,
                    config_path, temp_count, temp_config, c_log, c_used, c_update,
                    c_result, c_calls, c_edits >>

\* multi-character main lines 769-777: generate_audio; an exception leaves
\* main
McMainGenerate ==
    /\ cpc = "generate"
    /\ c_prog = "mc"
    /\ c_used' = generator
    /\ \E outcome \in {"ok", "raise"} :
          /\ c_result' = IF outcome = "ok" THEN "True" ELSE "False"
          /\ c_exit' = IF outcome = "ok" THEN 0 ELSE 1
    /\ cpc' = "exited"
    /\ UNCHANGED << bvars, svars, gvars, avars, c_prog, args_config, fs, n8n_data,
                    config_path, generator, built, temp_count, temp_config, c_log,
                    c_update, c_error, c_calls, c_edits >>

NextC ==
    \/ SshMain
    \/ ProcessN8nEnter
    \/ UpdateCreateTemp
    \/ UpdateReinitialize
    \/ ProcessN8nGenerate
    \/ SshMainExit
    \/ ProcessN8nAgain
    \/ BaseConfigRewritten
    \/ McMainConfig
    \/ McMainConstruct
    \/ McMainGenerate

SpecC == InitC /\ [][NextC]_vars

\* the characters of the embedded configuration of the current call
EmbeddedChars == n8n_data.character_config.characters

\* the voice the embedded configuration gives the character c
EmbeddedVoice(c) ==
    IF EmbeddedChars[c].voice_file = NoKey THEN DefaultVoiceFile
    ELSE EmbeddedChars[c].voice_file

\* ------------------------------------------------------------------------
\* C22: when the input of a run carries an embedded character
\* configuration, the registry with which that run parses and synthesises
\* is built from the embedded configuration and not from the configuration
\* path given with --config: every character of the embedded configuration
\* is registered with the voice given there, and no character is
\* registered that only the --config file defines.  Giving both logs a
\* warning and is no error: a --config path that does not exist does not
\* stop the run.
\* ------------------------------------------------------------------------
C22_EmbeddedConfigUsed ==
    (c_calls <= 1 /\ Embedded(n8n_data)) =>
        /\ c_used # 0 =>
              /\ \A c \in DOMAIN EmbeddedChars :
                    /\ c \in DOMAIN built[c_used]
                    /\ built[c_used][c].voice_file = EmbeddedVoice(c)
              /\ \A c \in DOMAIN built[c_used] :
                    \/ c \in DOMAIN EmbeddedChars
                    \/ c \in DOMAIN CharactersOf(fs["default"])
        /\ (args_config # NoPath /\ cpc # "main") =>
              /\ "both" \in c_log
              /\ c_error # "NotFound"

\* ------------------------------------------------------------------------
\* C23: a character-configuration update is a rebuild-and-swap.  Every step
\* of _update_character_config either makes the processor's generator a
\* wholly new instance with a registry of its own, or leaves the generator
\* and every registry as they were; when the rebuild fails the generator
\* stays the one that was active, and generate_audio of that same call runs
\* on it.  No step ever changes the registry of an existing generator.
\* ------------------------------------------------------------------------
C23_RebuildAndSwap ==
    [][ /\ SubSeq(built', 1, Len(built)) = built
        /\ cpc \in {"update", "reinit"} =>
              /\ \/ generator' = Len(built) + 1 /\ Len(built') = Len(built) + 1
                 \/ generator' = generator /\ built' = built
              /\ c_update' = "failed" =>
                    /\ generator' = generator
                    /\ built' = built
                    /\ cpc' = "generate"
        /\ (cpc = "generate" /\ c_prog = "ssh" /\ c_update = "failed") =>
              /\ generator' = generator
              /\ c_used' = generator
      ]_vars

\* the second call's update failed in the constructor after the first
\* call's had replaced the generator built at start: the second call ran
\* generate_audio on the generator of the first update
C23_Witness ==
    /\ cpc = "returned"
    /\ c_calls = 2
    /\ c_update = "failed"
    /\ c_error = "Malformed"
    /\ Len(built) = 2
    /\ generator = 2
    /\ c_used = 2

\* the path main of the program loads the registry from at start, NoPath
\* when the processor is constructed without one
StartPath ==
    IF c_prog = "ssh"
    THEN SshConfigToUse(args_config, Embedded(n8n_data), fs["default"].kind # "nofile")
    ELSE config_path

\* the step in which main loads the registry (or finds it has no file)
IsStartLoad ==
    \/ cpc = "main" /\ c_prog = "ssh" /\ StartPath # NoPath
    \/ cpc = "construct"

C29_TempConfigDeleted ==
    (c_prog = "ssh" /\ cpc # "reinit") =>
        \A t \in TempPaths : fs[t].kind = "nofile"

\* the characters of the file at the processor's config_path as an update
\* reads them: none when there is no path or no file
BaseCharacters ==
    IF ContentAt(fs, config_path).kind = "json"
    THEN CharactersOf(ContentAt(fs, config_path))
    ELSE EmptyMap

\* the base configuration overlaid with the embedded characters of this call
OverlaidRegistry ==
    [c \in (DOMAIN BaseCharacters) \cup (DOMAIN EmbeddedChars) |->
        IF c \in DOMAIN EmbeddedChars
        THEN CharacterConfig(ConvertedChar(c, EmbeddedChars[c]))
        ELSE CharacterConfig(BaseCharacters[c])]

\* ------------------------------------------------------------------------
\* C30: after any sequence of process_n8n_output calls on one
\* SSHN8NProcessor the active registry is the base configuration at the
\* processor's original config path overlaid with the characters of the
\* most recent successfully applied embedded configuration only.  The path
\* never changes; the step that applies an update makes the active registry
\* exactly that overlay, so that a character only an earlier embedded
\* configuration introduced is gone; every other step, a failed update and a
\* call without embedded configuration included, leaves the active registry
\* as it is.
\* ------------------------------------------------------------------------
C30_RegistryFromBaseAndLatest ==
    [][ (c_prog = "ssh" /\ cpc # "main") =>
          /\ config_path' = config_path
          /\ IF cpc = "reinit" /\ c_update' = "applied"
             THEN RegistryOf(built', generator') = OverlaidRegistry
             ELSE RegistryOf(built', generator') = RegistryOf(built, generator)
      ]_vars

\* two updates were applied on a processor without base characters, the
\* first with jake, the second with sarah: the active registry holds sarah
\* and not jake
C30_Witness ==
    /\ cpc = "returned"
    /\ c_calls = 2
    /\ c_update = "applied"
    /\ generator = Len(built)
    /\ Len(built) >= 2
    /\ <<"j","a","k","e">> \in DOMAIN built[generator - 1]
    /\ DOMAIN built[generator] = { <<"s","a","r","a","h">> }
    /\ built[generator][<<"s","a","r","a","h">>].voice_file = DefaultVoiceFile

====
